---- MODULE Spec2Model ----
(***************************************************************************)
(* A model of the convergence engine's persisted state and of the          *)
(* operations that change it: the atomic store (agents/file_lock.py), the   *)
(* capture hook (hooks/convergence-dispatcher.py), the quarantine sweep    *)
(* (agents/schema_validator.py) and the pipeline orchestrator              *)
(* (agents/pipeline.py, agents/checkpoint.py, agents/debater.py,           *)
(* agents/arbiter.py).                                                     *)
(*                                                                         *)
(* The issues log is a sequence of lines.  A line is a record together with *)
(* the part of it that reached the file: "full" (a parseable line), "head" *)
(* (the line's first bytes, no newline yet) or "tail" (its last bytes,     *)
(* separated from the head by another writer's bytes).  Every process step *)
(* that touches the file or the lock is one action.                        *)
(***************************************************************************)
EXTENDS Integers, Sequences, FiniteSets, TLC

\* ---------------------------------------------------------------- bounds
NHooks == 2         \* capture-hook processes running concurrently
NSerialHooks == 3   \* capture-hook processes running one after another
NAppenders == 2     \* plain atomic_append callers
NFingerprints == 2  \* distinct fingerprints the captured errors have
NRuns == 2          \* pipeline runs working on one issue's checkpoint
MaxCkOps == 1       \* checkpoint operations of each concurrent run
MaxSerialCkOps == 3 \* checkpoint operations of a run that is alone
MaxDocLen == 5      \* tokens of the knowledge document before the first write
MaxWrites == 2      \* bridge writes in a row
MaxSweeps == 2      \* starts of validate_all_issues on one log
NArbIssues == 2     \* records of the log the arbiter reads
MaxMinIssues == 2   \* largest configured min_issues_for_convergence
MaxArbRuns == 2     \* synthesize() calls in a row
MaxDebates == 2     \* debate_issue() calls in a row on one issue
MaxPatterns == 4    \* rows of the knowledge table the matcher reads
MaxTextLen == 3     \* lexemes of a text given to the sanitiser
MaxParallelAgents == 3 \* largest configured budget.max_parallel_agents
MaxTicks == 3       \* half seconds that pass while the arbiter is watched

\* ------------------------------------------------------ program constants
MaxRetries == 10    \* atomic_append(max_retries=10)

Hooks == 1..NHooks
SerialHooks == 1..NSerialHooks
Appenders == 11..(10 + NAppenders)
Updaters == {21}   \* the plain update_jsonl_record caller
Sweepers == {31}
Procs == Hooks \cup SerialHooks \cup Appenders \cup Updaters \cup Sweepers
Fingerprints == 1..NFingerprints

VARIABLES
    file,        \* data/issues.jsonl: the sequence of its lines
    quarantine,  \* data/quarantine.jsonl
    lock,        \* holder of the flock on issues.jsonl.lock, 0 when free
    pc,          \* each process's position
    issue,       \* the record a hook or appender is about to write
    snap,        \* the records a process read (and, in update, patched)
    before,      \* the file as update_jsonl_record read it under the lock
    target,      \* update_jsonl_record's (record_id, updates)
    tmp,         \* the temporary file of update_jsonl_record / the sweep
    attempt,     \* atomic_append's attempt counter
    fallback,    \* the hook is in its except-branch (the fallback append)
    out,         \* number of {"result": "allow"} lines written to stdout
    clock,       \* the wall clock datetime.now() reads
    cp,          \* checkpoint.json of the issue: phase -> status
    art,         \* which artefact files exist in data/research/<issue_id>/
    ppc,         \* the orchestrator's position
    rf,          \* the running operation and run_full_pipeline's arguments
    pres,        \* run_full_pipeline's pipeline_results
    results,     \* research_single_issue's results
    running,     \* research workers submitted to the pool and not finished
    rv,          \* the value debate_issue / synthesize returned
    ckfile,      \* data/research/<issue_id>/checkpoint.json, phases and trajectory
    ckpc,        \* each pipeline run's position in save_checkpoint / clear_checkpoint
    ckop,        \* the checkpoint operation a run is in, with its arguments
    ckold,       \* the checkpoint as the operation loaded it
    ckmem,       \* the loaded checkpoint after the operation changed it in memory
    ckret,       \* what the run's last checkpoint operation returned
    ckleft,      \* how many more checkpoint operations a run will start
    ckdone,      \* the trajectory entries of the operations that returned True
    doc,         \* CLAUDE.md, the knowledge document
    writes,      \* bridge writes made so far
    orig,        \* the issues log as it was before the first sweep
    sweeps,      \* how many times validate_all_issues has been started
    syn,         \* a synthesize() call over the whole log: position, arguments, locals
    conv,        \* the convergence output directory and the arbiter agent's calls
    duplicate,   \* the duplicate a capture hook found in the log it read
    diag,        \* "[convergence-engine]" lines each hook wrote to stderr
    debate,      \* a debate_issue() call: position, rounds, locals, return value
    dfiles,      \* the debate files in data/research/<issue_id>/
    kb,          \* what the pre-tool matcher can read: knowledge table and log
    match,       \* one run of the pre-tool matcher: position, locals, streams
    san,         \* a text and what sanitize_context made of it, once and twice
    cap,         \* a capture: the raw error, the record built, the records stored
    pool,        \* research_single_issue's thread pool and the impact assessor
    arc          \* output/archive/, the clock it is named by, the versions written

storeRest == <<quarantine, lock, pc, issue, snap, before, target, tmp,
               attempt, fallback, out, clock>>
storeRest_but_pc == <<quarantine, lock, issue, snap, before, target, tmp,
                      attempt, fallback, out, clock>>
pipeVars == <<cp, art, ppc, rf, pres, results, running, rv>>
ckVars == <<ckfile, ckpc, ckop, ckold, ckmem, ckret, ckleft, ckdone>>
docVars == <<doc, writes>>
sweepVars == <<orig, sweeps>>
arbVars == <<syn, conv>>
hookVars == <<duplicate, diag>>
debVars == <<debate, dfiles>>
matchVars == <<kb, match>>
textVars == <<san, cap>>
lateVars == <<matchVars, textVars, pool>>
moreVars == <<sweepVars, arbVars, hookVars, debVars, lateVars, arc>>
auxVars == <<ckVars, docVars, moreVars>>
vars == <<file, storeRest, pipeVars, auxVars>>

NoRec == [id |-> 0, fp |-> 0, count |-> 0, first |-> 0, last |-> 0,
          status |-> "none", valid |-> FALSE]
NoTarget == [id |-> 0, patch |-> [id |-> 0]]

\* The record main() builds: occurrence_count 1, first_seen = last_seen = now.
MkIssue(id, fp, now) ==
    [id |-> id, fp |-> fp, count |-> 1, first |-> now, last |-> now,
     status |-> "captured", valid |-> TRUE]

Line(r, part) == [rec |-> r, part |-> part]

\* read_jsonl: the parseable lines, in order; a corrupt line is skipped.
RECURSIVE read_jsonl(_)
read_jsonl(f) ==
    IF f = <<>> THEN <<>>
    ELSE IF Head(f).part = "full" THEN <<Head(f).rec>> \o read_jsonl(Tail(f))
         ELSE read_jsonl(Tail(f))

\* dict.update: the patched fields replace the record's, the others stay.
ApplyPatch(r, patch) ==
    [k \in DOMAIN r |-> IF k \in DOMAIN patch THEN patch[k] ELSE r[k]]

\* find_duplicate: the first existing record with the new record's fingerprint.
RECURSIVE find_duplicate(_, _)
find_duplicate(r, existing) ==
    IF existing = <<>> THEN NoRec
    ELSE IF Head(existing).fp # 0 /\ Head(existing).fp = r.fp THEN Head(existing)
         ELSE find_duplicate(r, Tail(existing))

\* The records update_jsonl_record writes back: every parseable line, the ones
\* whose id matches patched; unparseable lines become None and are not written.
RECURSIVE PatchedRecords(_, _, _)
PatchedRecords(f, id, patch) ==
    IF f = <<>> THEN <<>>
    ELSE IF Head(f).part # "full" THEN PatchedRecords(Tail(f), id, patch)
         ELSE <<Line(IF Head(f).rec.id = id THEN ApplyPatch(Head(f).rec, patch)
                     ELSE Head(f).rec, "full")>>
              \o PatchedRecords(Tail(f), id, patch)

Found(f, id) == \E i \in 1..Len(f) : f[i].part = "full" /\ f[i].rec.id = id


\* ------------------------------------------------------------ atomic_append
\* A writer that takes the data file without asking flock for it (the mutant
\* of AppAcquire).
AppAcquireNoLock(p) ==
    /\ pc[p] = "a_try"
    /\ pc' = [pc EXCEPT ![p] = "a_head"]
    /\ UNCHANGED <<file, quarantine, lock, issue, snap, before, target, tmp,
                   attempt, fallback, out, clock>>
    /\ UNCHANGED pipeVars
    /\ UNCHANGED auxVars

\* flock(LOCK_EX | LOCK_NB) succeeds: the lock is free.
AppAcquire(p) ==
    /\ pc[p] = "a_try"
    /\ lock = 0
    /\ lock' = p
    /\ pc' = [pc EXCEPT ![p] = "a_head"]
    /\ UNCHANGED <<file, quarantine, issue, snap, before, target, tmp,
                   attempt, fallback, out, clock>>
    /\ UNCHANGED pipeVars
    /\ UNCHANGED auxVars

\* flock raises BlockingIOError: one more attempt is used up; after
\* max_retries of them the loop ends and FileLockError is raised.
AppBusy(p) ==
    /\ pc[p] = "a_try"
    /\ lock # 0
    /\ attempt' = [attempt EXCEPT ![p] = @ + 1]
    /\ pc' = [pc EXCEPT ![p] = IF attempt[p] + 1 < MaxRetries THEN "a_try"
                                ELSE "a_timeout"]
    /\ UNCHANGED <<file, quarantine, lock, issue, snap, before, target, tmp,
                   fallback, out, clock>>
    /\ UNCHANGED pipeVars
    /\ UNCHANGED auxVars

\* data_fd.write(line + "\n") reaches the file in two write calls: first the
\* head of the line ...
AppWriteHead(p) ==
    /\ pc[p] = "a_head"
    /\ file' = Append(file, Line(issue[p], "head"))
    /\ pc' = [pc EXCEPT ![p] = "a_tail"]
    /\ UNCHANGED <<quarantine, lock, issue, snap, before, target, tmp,
                   attempt, fallback, out, clock>>
    /\ UNCHANGED pipeVars
    /\ UNCHANGED auxVars

\* ... then the rest and the newline, at the end of the file (O_APPEND): the
\* line is whole only if nothing was written after its head.
AppWriteTail(p) ==
    /\ pc[p] = "a_tail"
    /\ file' = IF file # <<>> /\ file[Len(file)] = Line(issue[p], "head")
               THEN [file EXCEPT ![Len(file)] = Line(issue[p], "full")]
               ELSE Append(file, Line(issue[p], "tail"))
    /\ pc' = [pc EXCEPT ![p] = "a_unlock"]
    /\ UNCHANGED <<quarantine, lock, issue, snap, before, target, tmp,
                   attempt, fallback, out, clock>>
    /\ UNCHANGED pipeVars
    /\ UNCHANGED auxVars

\* flock(LOCK_UN); lock_fd.close(); return
AppRelease(p) ==
    /\ pc[p] = "a_unlock"
    /\ lock' = IF lock = p THEN 0 ELSE lock
    /\ pc' = [pc EXCEPT ![p] = "a_ret"]
    /\ UNCHANGED <<file, quarantine, issue, snap, before, target, tmp,
                   attempt, fallback, out, clock>>
    /\ UNCHANGED pipeVars
    /\ UNCHANGED auxVars

\* json.dumps(record) raises: AtomicAppendError before any I/O, no lock taken.
AppNotSerialisable(p) ==
    /\ pc[p] = "a_try"
    /\ attempt[p] = 0
    /\ pc' = [pc EXCEPT ![p] = "a_failed"]
    /\ UNCHANGED <<file, quarantine, lock, issue, snap, before, target, tmp,
                   attempt, fallback, out, clock>>
    /\ UNCHANGED pipeVars
    /\ UNCHANGED auxVars

\* An I/O error under the lock (open, write, flush or fsync raises, say the
\* device is full): the with-block closes the data file, the except branch
\* releases the lock and raises AtomicAppendError.  What the write calls
\* before the error put into the file stays there.
AppFail(p) ==
    /\ pc[p] \in {"a_head", "a_tail"}
    /\ lock' = IF lock = p THEN 0 ELSE lock
    /\ pc' = [pc EXCEPT ![p] = "a_failed"]
    /\ UNCHANGED <<file, quarantine, issue, snap, before, target, tmp,
                   attempt, fallback, out, clock>>
    /\ UNCHANGED pipeVars
    /\ UNCHANGED auxVars

\* ------------------------------------------------------ update_jsonl_record
\* An update that goes on to read and rewrite the log without taking the
\* lock (the mutant of UpdAcquire).
UpdAcquireNoLock(p) ==
    /\ pc[p] = "u_lock"
    /\ pc' = [pc EXCEPT ![p] = "u_read"]
    /\ UNCHANGED <<file, quarantine, lock, issue, snap, before, target, tmp,
                   attempt, fallback, out, clock>>
    /\ UNCHANGED pipeVars
    /\ UNCHANGED auxVars

\* flock(LOCK_EX): blocks until the lock is free.
UpdAcquire(p) ==
    /\ pc[p] = "u_lock"
    /\ lock = 0
    /\ lock' = p
    /\ pc' = [pc EXCEPT ![p] = "u_read"]
    /\ UNCHANGED <<file, quarantine, issue, snap, before, target, tmp,
                   attempt, fallback, out, clock>>
    /\ UNCHANGED pipeVars
    /\ UNCHANGED auxVars

\* The lock is held: flock(LOCK_EX) has no LOCK_NB and no timeout, the call
\* stays blocked for one more interval (counted in attempt, which the code
\* does not do; the count stops where the model's bound is left behind).
UpdBlocked(p) ==
    /\ pc[p] = "u_lock"
    /\ lock # 0
    /\ attempt[p] <= MaxRetries
    /\ attempt' = [attempt EXCEPT ![p] = @ + 1]
    /\ UNCHANGED <<file, quarantine, lock, pc, issue, snap, before, target, tmp,
                   fallback, out, clock>>
    /\ UNCHANGED pipeVars
    /\ UNCHANGED auxVars

\* Read every line, patch the matching records; without a match nothing is
\* written and the lock is released.
UpdRead(p) ==
    /\ pc[p] = "u_read"
    /\ before' = [before EXCEPT ![p] = file]
    /\ snap' = [snap EXCEPT ![p] =
                  PatchedRecords(file, target[p].id, target[p].patch)]
    /\ tmp' = [tmp EXCEPT ![p] = <<>>]
    /\ pc' = [pc EXCEPT ![p] = IF Found(file, target[p].id) THEN "u_tmp"
                                ELSE "u_unlock"]
    /\ UNCHANGED <<file, quarantine, lock, issue, target, attempt, fallback,
                   out, clock>>
    /\ UNCHANGED pipeVars
    /\ UNCHANGED auxVars

\* An update that rewrites the data file in place, record by record, instead
\* of a temporary file (the mutant of UpdWriteTmp).
UpdWriteInPlace(p) ==
    /\ pc[p] = "u_tmp"
    /\ tmp' = [tmp EXCEPT ![p] = Append(@, snap[p][Len(@) + 1])]
    /\ file' = tmp'[p]
    /\ pc' = [pc EXCEPT ![p] = IF Len(tmp[p]) + 1 = Len(snap[p])
                                THEN "u_replace" ELSE "u_tmp"]
    /\ UNCHANGED <<quarantine, lock, issue, snap, before, target, attempt,
                   fallback, out, clock>>
    /\ UNCHANGED pipeVars
    /\ UNCHANGED auxVars

\* Write the records to the mkstemp file, one line per step.
UpdWriteTmp(p) ==
    /\ pc[p] = "u_tmp"
    /\ tmp' = [tmp EXCEPT ![p] = Append(@, snap[p][Len(@) + 1])]
    /\ pc' = [pc EXCEPT ![p] = IF Len(tmp[p]) + 1 = Len(snap[p])
                                THEN "u_replace" ELSE "u_tmp"]
    /\ UNCHANGED <<file, quarantine, lock, issue, snap, before, target,
                   attempt, fallback, out, clock>>
    /\ UNCHANGED pipeVars
    /\ UNCHANGED auxVars

\* os.replace(tmp_path, filepath)
UpdReplace(p) ==
    /\ pc[p] = "u_replace"
    /\ file' = tmp[p]
    /\ pc' = [pc EXCEPT ![p] = "u_unlock"]
    /\ UNCHANGED <<quarantine, lock, issue, snap, before, target, tmp,
                   attempt, fallback, out, clock>>
    /\ UNCHANGED pipeVars
    /\ UNCHANGED auxVars

\* flock(LOCK_UN); lock_fd.close(); return found
UpdRelease(p) ==
    /\ pc[p] = "u_unlock"
    /\ lock' = IF lock = p THEN 0 ELSE lock
    /\ pc' = [pc EXCEPT ![p] = "u_ret"]
    /\ UNCHANGED <<file, quarantine, issue, snap, before, target, tmp,
                   attempt, fallback, out, clock>>
    /\ UNCHANGED pipeVars
    /\ UNCHANGED auxVars

\* An I/O error while the temporary file is written or renamed: the inner
\* except unlinks the temporary file, the outer one releases the lock and
\* raises AtomicAppendError.
UpdFail(p) ==
    /\ pc[p] \in {"u_tmp", "u_replace"}
    /\ tmp' = [tmp EXCEPT ![p] = <<>>]
    /\ lock' = IF lock = p THEN 0 ELSE lock
    /\ pc' = [pc EXCEPT ![p] = "u_failed"]
    /\ UNCHANGED <<file, quarantine, issue, snap, before, target, attempt,
                   fallback, out, clock>>
    /\ UNCHANGED pipeVars
    /\ UNCHANGED auxVars

\* The updating process is killed at any step; the kernel drops its flock.
UpdCrash(p) ==
    /\ pc[p] \in {"u_lock", "u_read", "u_tmp", "u_replace", "u_unlock"}
    /\ lock' = IF lock = p THEN 0 ELSE lock
    /\ pc' = [pc EXCEPT ![p] = "crashed"]
    /\ UNCHANGED <<file, quarantine, issue, snap, before, target, tmp,
                   attempt, fallback, out, clock>>
    /\ UNCHANGED pipeVars
    /\ UNCHANGED auxVars


\* ------------------------------------------- capture hook: dispatcher main()
\* The kill switch is set: allow and return.
HookDisabled(p) ==
    /\ pc[p] = "idle"
    /\ out' = [out EXCEPT ![p] = @ + 1]
    /\ pc' = [pc EXCEPT ![p] = "done"]
    /\ UNCHANGED <<file, quarantine, lock, issue, snap, before, target, tmp,
                   attempt, fallback, clock>>
    /\ UNCHANGED pipeVars
    /\ UNCHANGED auxVars

\* json.load raises JSONDecodeError or EOFError: allow and return.
HookMalformed(p) ==
    /\ pc[p] = "idle"
    /\ out' = [out EXCEPT ![p] = @ + 1]
    /\ pc' = [pc EXCEPT ![p] = "done"]
    /\ UNCHANGED <<file, quarantine, lock, issue, snap, before, target, tmp,
                   attempt, fallback, clock>>
    /\ UNCHANGED pipeVars
    /\ UNCHANGED auxVars

\* The envelope is valid JSON but no object (a list, a string, a number):
\* payload.get raises AttributeError outside every try, the process ends
\* with a traceback and nothing on stdout.
HookNonObject(p) ==
    /\ pc[p] = "idle"
    /\ pc' = [pc EXCEPT ![p] = "h_crashed"]
    /\ UNCHANGED <<file, quarantine, lock, issue, snap, before, target, tmp,
                   attempt, fallback, out, clock>>
    /\ UNCHANGED pipeVars
    /\ UNCHANGED auxVars

\* The envelope is an object: take now, build the record, fingerprint it,
\* validate (a record built here always validates) and sanitise it.
HookBuild(p, f) ==
    /\ pc[p] = "idle"
    /\ issue' = [issue EXCEPT ![p] = MkIssue(p, f, clock)]
    /\ clock' = clock + 1
    /\ pc' = [pc EXCEPT ![p] = "h_read"]
    /\ UNCHANGED <<file, quarantine, lock, snap, before, target, tmp,
                   attempt, fallback, out>>
    /\ UNCHANGED pipeVars
    /\ UNCHANGED auxVars

\* A dedup that bumps last_seen but forgets the count (the mutant of
\* DedupPatch).
DedupPatchNoIncrement(dup, now) ==
    [count |-> dup.count, last |-> now]

\* A dedup that writes back the status it read along with the count (a
\* mutant of DedupPatch).
DedupPatchWithStatus(dup, now) ==
    [count |-> dup.count + 1, last |-> now, status |-> dup.status]

\* The updates the hook passes to update_jsonl_record for a duplicate.
DedupPatch(dup, now) ==
    [count |-> dup.count + 1, last |-> now]

\* existing_issues = read_jsonl(...) (no lock is held), migrate, find_duplicate;
\* then the branch: update the duplicate, or append the new record.
HookRead(p) ==
    /\ pc[p] = "h_read"
    /\ snap' = [snap EXCEPT ![p] = read_jsonl(file)]
    /\ LET found == find_duplicate(issue[p], read_jsonl(file))
       IN  /\ duplicate' = [duplicate EXCEPT ![p] = found]
           /\ IF found.id # 0
              THEN /\ target' = [target EXCEPT ![p] =
                         [id |-> found.id,
                          patch |-> DedupPatch(found, issue[p].last)]]
                   /\ pc' = [pc EXCEPT ![p] = "u_lock"]
              ELSE /\ target' = target
                   /\ pc' = [pc EXCEPT ![p] = "a_try"]
    /\ UNCHANGED <<file, quarantine, lock, issue, before, tmp, attempt,
                   fallback, out, clock>>
    /\ UNCHANGED pipeVars
    /\ UNCHANGED <<ckVars, docVars, sweepVars, arbVars, debVars, diag, lateVars, arc>>

\* atomic_append raised FileLockError inside the try: the except branch logs
\* and calls atomic_append again.
HookFallback(p) ==
    /\ pc[p] = "a_timeout"
    /\ ~fallback[p]
    /\ fallback' = [fallback EXCEPT ![p] = TRUE]
    /\ attempt' = [attempt EXCEPT ![p] = 0]
    /\ pc' = [pc EXCEPT ![p] = "a_try"]
    /\ UNCHANGED <<file, quarantine, lock, issue, snap, before, target, tmp,
                   out, clock>>
    /\ UNCHANGED pipeVars
    /\ UNCHANGED auxVars

\* The fallback append raised too: log "Failed to write issue", then allow.
HookGiveUp(p) ==
    /\ pc[p] = "a_timeout"
    /\ fallback[p]
    /\ out' = [out EXCEPT ![p] = @ + 1]
    /\ pc' = [pc EXCEPT ![p] = "done"]
    /\ UNCHANGED <<file, quarantine, lock, issue, snap, before, target, tmp,
                   attempt, fallback, clock>>
    /\ UNCHANGED pipeVars
    /\ UNCHANGED auxVars

\* A short-circuit that looks for the status resolved (the mutant of
\* KnownResolution).
KnownResolutionIfResolved(p) ==
    /\ pc[p] = "u_ret"
    /\ duplicate[p].status = "resolved" /\ target[p].patch.count > 1

\* dup_status == "converged" and new_count > 1, after the update returned.
KnownResolution(p) ==
    /\ pc[p] = "u_ret"
    /\ duplicate[p].status = "converged" /\ target[p].patch.count > 1

\* The update or the append returned: for a known resolution
\* _emit_cached_resolution prints its "[convergence-engine] Known error" line
\* to stderr; then print {"result": "allow"}.
HookAllow(p) ==
    /\ pc[p] \in {"u_ret", "a_ret"}
    /\ diag' = [diag EXCEPT ![p] = IF KnownResolution(p) THEN @ + 1 ELSE @]
    /\ out' = [out EXCEPT ![p] = @ + 1]
    /\ pc' = [pc EXCEPT ![p] = "done"]
    /\ UNCHANGED <<file, quarantine, lock, issue, snap, before, target, tmp,
                   attempt, fallback, clock>>
    /\ UNCHANGED pipeVars
    /\ UNCHANGED <<ckVars, docVars, sweepVars, arbVars, debVars, duplicate, lateVars, arc>>

\* ------------------------------------- quarantine sweep: validate_all_issues
IsValidLine(l) == l.part = "full" /\ l.rec.valid
IsInvalidLine(l) == ~IsValidLine(l)

\* Read the log (no lock is taken) and sort its lines into valid_records and
\* quarantined; without a quarantined line nothing is rewritten.
SweepRead(p) ==
    /\ pc[p] = "s_read"
    /\ tmp' = [tmp EXCEPT ![p] = SelectSeq(file, IsValidLine)]
    /\ snap' = [snap EXCEPT ![p] = SelectSeq(file, IsInvalidLine)]
    /\ pc' = [pc EXCEPT ![p] = IF SelectSeq(file, IsInvalidLine) # <<>>
                                THEN "s_quar" ELSE "s_ret"]
    /\ UNCHANGED <<file, quarantine, lock, issue, before, target, attempt,
                   fallback, out, clock>>
    /\ UNCHANGED pipeVars
    /\ UNCHANGED auxVars

\* atomic_append(quarantine_path, record) for every quarantined record.
SweepQuarantine(p) ==
    /\ pc[p] = "s_quar"
    /\ quarantine' = quarantine \o snap[p]
    /\ pc' = [pc EXCEPT ![p] = "s_replace"]
    /\ UNCHANGED <<file, lock, issue, snap, before, target, tmp, attempt,
                   fallback, out, clock>>
    /\ UNCHANGED pipeVars
    /\ UNCHANGED auxVars

\* Write valid_records to issues.jsonl.validated.tmp and os.replace it over
\* the log (still no lock).
SweepReplace(p) ==
    /\ pc[p] = "s_replace"
    /\ file' = tmp[p]
    /\ pc' = [pc EXCEPT ![p] = "s_ret"]
    /\ UNCHANGED <<quarantine, lock, issue, snap, before, target, tmp,
                   attempt, fallback, out, clock>>
    /\ UNCHANGED pipeVars
    /\ UNCHANGED auxVars

\* The sweep is interrupted, or an exception leaves it (atomic_append's
\* LockTimeoutError, an OSError of the temporary file or of os.replace),
\* after it appended to the quarantine log and before it replaced the log.
SweepCrash(p) ==
    /\ pc[p] = "s_replace"
    /\ pc' = [pc EXCEPT ![p] = "s_crashed"]
    /\ UNCHANGED <<file, quarantine, lock, issue, snap, before, target, tmp,
                   attempt, fallback, out, clock>>
    /\ UNCHANGED pipeVars
    /\ UNCHANGED auxVars

\* validate_all_issues is called again on the same log.
SweepRerun(p) ==
    /\ pc[p] \in {"s_crashed", "s_ret"}
    /\ sweeps < MaxSweeps
    /\ sweeps' = sweeps + 1
    /\ pc' = [pc EXCEPT ![p] = "s_read"]
    /\ UNCHANGED <<file, storeRest_but_pc, pipeVars, ckVars, docVars, orig, arbVars, hookVars, debVars, lateVars, arc>>


\* ------------------------------- synthesize over the whole log (arbiter.py)
ArbIds == 101..(100 + NArbIssues)
NoConv == [report |-> FALSE, tasks |-> FALSE, archived |-> 0, agentCalls |-> 0]
NoSyn == [pc |-> "off", filter |-> 0, min |-> 0, eligible |-> <<>>,
          ret |-> FALSE, runs |-> 0, file0 |-> <<>>, conv0 |-> NoConv]

\* The two convergence outputs: convergence.md and tasks.json.
OutputKinds == {"convergence", "tasks"}
\* datetime.now(timezone.utc).strftime("%Y%m%d_%H%M%S"): the clock, counted
\* here in half seconds, cut down to whole seconds.
Timestamp(t) == t \div 2
Timestamps == {Timestamp(t) : t \in 0..MaxTicks}
\* os.path.join(archive_dir, f"{name}_{timestamp}{ext}")
ArchiveNames == OutputKinds \X Timestamps
\* The archive and the versions of the outputs. A version is numbered by the
\* order it was written in, 0 is no file. written is the history of the
\* versions ever written, prev the versions the last archiving moved, agent
\* the result.success of the last run_agent call, runs the synthesize() calls
\* that returned: the value returned and what the agent call of the run gave.
NoArc == [now |-> 0, report |-> 0, tasks |-> 0,
          dir |-> [n \in ArchiveNames |-> 0],
          written |-> {}, last |-> 0, agent |-> "none",
          prev |-> [k \in OutputKinds |-> 0], runs |-> <<>>]

\* shutil.move(src, dst) for each output that exists: dst takes the place of
\* whatever the archive held under that name.
ArchiveMove(dir, stamp, report, tasks) ==
    [n \in ArchiveNames |->
        IF n = <<"convergence", stamp>> /\ report # 0 THEN report
        ELSE IF n = <<"tasks", stamp>> /\ tasks # 0 THEN tasks
        ELSE dir[n]]

\* [i for i in all_issues if i.get("status") == st]
WithStatus(rs, st) == SelectSeq(rs, LAMBDA r : r.status = st)
\* [i for i in all_issues if i.get("id") == issue_filter]
WithId(rs, id) == SelectSeq(rs, LAMBDA r : r.id = id)

\* The eligible issues: the ones issue_filter names; with no filter the
\* debated ones, or the researched ones when none is debated.
EligibleIssues(f, filter) ==
    LET all_issues == read_jsonl(f)
    IN  IF filter # 0 THEN WithId(all_issues, filter)
        ELSE IF WithStatus(all_issues, "debated") # <<>>
             THEN WithStatus(all_issues, "debated")
             ELSE WithStatus(all_issues, "researched")

\* The guard that turns the run into a no-op, read the other way round
\* (the mutant of BelowMinimum).
AtOrBelowMinimum(n, m) == n <= m

\* len(eligible) < min_issues
BelowMinimum(n, m) == n < m

\* for issue in eligible: update_jsonl_record(issues_path, id, converged)
RECURSIVE ConvergeAll(_, _)
ConvergeAll(f, el) ==
    IF el = <<>> THEN f
    ELSE ConvergeAll(IF Found(f, Head(el).id)
                     THEN PatchedRecords(f, Head(el).id, [status |-> "converged"])
                     ELSE f,
                     Tail(el))

\* synthesize(issue_filter) starts: it reads the log, selects the eligible
\* issues and reads min_issues_for_convergence from the configuration.
ArbStart(filter, min) ==
    /\ syn.pc = "idle"
    /\ syn.runs < MaxArbRuns
    /\ syn' = [pc |-> "y_check", filter |-> filter, min |-> min,
               eligible |-> EligibleIssues(file, filter), ret |-> FALSE,
               runs |-> syn.runs + 1, file0 |-> file, conv0 |-> conv]
    /\ UNCHANGED <<file, storeRest, pipeVars, ckVars, docVars, sweepVars, hookVars, debVars, conv, lateVars, arc>>

\* Fewer eligible issues than the minimum: log and return False.
ArbBelowMin ==
    /\ syn.pc = "y_check"
    /\ BelowMinimum(Len(syn.eligible), syn.min)
    /\ syn' = [syn EXCEPT !.pc = "y_ret", !.ret = FALSE]
    /\ UNCHANGED <<file, storeRest, pipeVars, ckVars, docVars, sweepVars, hookVars, debVars, conv, lateVars, arc>>

\* _archive_previous_convergence: convergence.md and tasks.json, where they
\* exist, are moved to archive/.
ArbArchive ==
    /\ syn.pc = "y_check"
    /\ ~BelowMinimum(Len(syn.eligible), syn.min)
    /\ conv' = [conv EXCEPT !.report = FALSE, !.tasks = FALSE,
                            !.archived = @ + (IF conv.report THEN 1 ELSE 0)
                                           + (IF conv.tasks THEN 1 ELSE 0)]
    /\ arc' = [arc EXCEPT !.report = 0, !.tasks = 0,
                          !.dir = ArchiveMove(@, Timestamp(arc.now),
                                              arc.report, arc.tasks),
                          !.prev = [k \in OutputKinds |->
                                       IF k = "convergence" THEN arc.report
                                       ELSE arc.tasks]]
    /\ syn' = [syn EXCEPT !.pc = "y_agent"]
    /\ UNCHANGED <<file, storeRest, pipeVars, ckVars, docVars, sweepVars, hookVars, debVars, lateVars>>

\* A synthesiser that goes on to write whatever the agent gave (a mutant of
\* ArbAgent).
ArbAgentIgnoresFailure(ok) ==
    /\ syn.pc = "y_agent"
    /\ conv' = [conv EXCEPT !.agentCalls = @ + 1]
    /\ arc' = [arc EXCEPT !.agent = IF ok THEN "ok" ELSE "failed"]
    /\ syn' = [syn EXCEPT !.pc = "y_report", !.ret = FALSE]
    /\ UNCHANGED <<file, storeRest, pipeVars, ckVars, docVars, sweepVars, hookVars, debVars, lateVars>>

\* run_agent(stage="converge"): on failure return False.
ArbAgent(ok) ==
    /\ syn.pc = "y_agent"
    /\ conv' = [conv EXCEPT !.agentCalls = @ + 1]
    /\ arc' = [arc EXCEPT !.agent = IF ok THEN "ok" ELSE "failed"]
    /\ syn' = [syn EXCEPT !.pc = IF ok THEN "y_report" ELSE "y_ret", !.ret = FALSE]
    /\ UNCHANGED <<file, storeRest, pipeVars, ckVars, docVars, sweepVars, hookVars, debVars, lateVars>>

\* Write convergence.md; an exception returns False.
ArbWriteReport(ok) ==
    /\ syn.pc = "y_report"
    /\ conv' = [conv EXCEPT !.report = ok]
    /\ arc' = IF ok
              THEN [arc EXCEPT !.report = arc.last + 1, !.last = @ + 1,
                               !.written = @ \cup {<<"convergence", arc.last + 1>>}]
              ELSE [arc EXCEPT !.report = 0]
    /\ syn' = [syn EXCEPT !.pc = IF ok THEN "y_tasks" ELSE "y_ret", !.ret = FALSE]
    /\ UNCHANGED <<file, storeRest, pipeVars, ckVars, docVars, sweepVars, hookVars, debVars, lateVars>>

\* Write tasks.json; an exception returns False.
ArbWriteTasks(ok) ==
    /\ syn.pc = "y_tasks"
    /\ conv' = [conv EXCEPT !.tasks = ok]
    /\ arc' = IF ok
              THEN [arc EXCEPT !.tasks = arc.last + 1, !.last = @ + 1,
                               !.written = @ \cup {<<"tasks", arc.last + 1>>}]
              ELSE [arc EXCEPT !.tasks = 0]
    /\ syn' = [syn EXCEPT !.pc = IF ok THEN "y_update" ELSE "y_ret", !.ret = FALSE]
    /\ UNCHANGED <<file, storeRest, pipeVars, ckVars, docVars, sweepVars, hookVars, debVars, lateVars>>

\* Every eligible issue's status becomes converged; return True.
ArbUpdate ==
    /\ syn.pc = "y_update"
    /\ file' = ConvergeAll(file, syn.eligible)
    /\ syn' = [syn EXCEPT !.pc = "y_ret", !.ret = TRUE]
    /\ UNCHANGED <<storeRest, pipeVars, ckVars, docVars, sweepVars, hookVars, debVars, conv, lateVars, arc>>

\* synthesize has returned; its caller (the session-end hook's main, the
\* command line) logs the outcome and ends.
ArbReturn ==
    /\ syn.pc = "y_ret"
    /\ syn' = [syn EXCEPT !.pc = "idle"]
    /\ arc' = [arc EXCEPT !.runs = Append(@,
                   [ret |-> syn.ret,
                    agent |-> IF conv.agentCalls > syn.conv0.agentCalls
                              THEN arc.agent ELSE "none"])]
    /\ UNCHANGED <<file, storeRest, pipeVars, ckVars, docVars, sweepVars, hookVars, debVars, conv, lateVars>>

\* Half a second passes.
ArchiveClockTick ==
    /\ arc.now < MaxTicks
    /\ arc' = [arc EXCEPT !.now = @ + 1]
    /\ UNCHANGED <<file, storeRest, pipeVars, ckVars, docVars>>
    /\ UNCHANGED <<sweepVars, arbVars, hookVars, debVars, lateVars>>

\* ------------------------------------------------ checkpoint (checkpoint.py)
IssueId == 101
PIPELINE_PHASES == <<"research", "debate", "convergence">>
Phases == {"research", "debate", "convergence"}
PhaseIndex(ph) == CHOOSE i \in 1..3 : PIPELINE_PHASES[i] = ph
ResearchFiles == {"root_cause", "solutions", "impact"}
Artefacts == ResearchFiles \cup {"debate"}
Workers == {"researcher", "solution_finder", "impact_assessor"}
OutputOf(w) == CASE w = "researcher" -> "root_cause"
                 [] w = "solution_finder" -> "solutions"
                 [] OTHER -> "impact"

is_phase_completed(ph) == cp[ph] = "completed"

\* A skip test that never allows a skip (a mutant of can_skip_phase).
can_skip_never(ph) == FALSE

\* A skip test that trusts the checkpoint alone (a mutant of can_skip_phase).
can_skip_by_checkpoint(ph) == cp[ph] = "completed"

\* can_skip_phase: completed in the checkpoint and the output files exist;
\* convergence never.
can_skip_phase(ph) ==
    /\ is_phase_completed(ph)
    /\ CASE ph = "research" -> \E a \in ResearchFiles : art[a]
         [] ph = "debate" -> art["debate"]
         [] OTHER -> FALSE

\* A resume that always starts over (the mutant of get_resume_phase).
ResumeAtResearch == "research"

\* get_resume_phase: the first phase not completed, None ("none") if all are.
get_resume_phase ==
    IF \E i \in 1..3 : ~is_phase_completed(PIPELINE_PHASES[i])
    THEN PIPELINE_PHASES[CHOOSE i \in 1..3 :
             /\ ~is_phase_completed(PIPELINE_PHASES[i])
             /\ \A j \in 1..(i - 1) : is_phase_completed(PIPELINE_PHASES[j])]
    ELSE "none"

\* A clear that deletes the named phase only (the mutant of clear_checkpoint).
clear_only_phase(c, from) ==
    [ph \in Phases |-> IF from = "none" \/ ph = from THEN "none" ELSE c[ph]]

\* clear_checkpoint(issue_id, from_phase): the phases from from_phase on are
\* deleted; all of them when from_phase is None ("none").
clear_checkpoint(c, from) ==
    [ph \in Phases |->
        IF from = "none" \/ PhaseIndex(ph) >= PhaseIndex(from) THEN "none"
        ELSE c[ph]]

\* A run that records every finished phase as completed (the mutant of
\* PhaseStatus).
PhaseStatusAlwaysCompleted(ok) == "completed"

\* PHASE_COMPLETED if the phase succeeded else PHASE_FAILED
PhaseStatus(ok) == IF ok THEN "completed" ELSE "failed"

\* update_jsonl_record(issues_path, issue_id, {"status": s}) by the one
\* orchestrator process, start to end.
SetStatus(s) ==
    IF Found(file, IssueId)
    THEN PatchedRecords(file, IssueId, [status |-> s])
    ELSE file

StatusOf(f) ==
    LET rs == read_jsonl(f)
    IN  IF \E i \in 1..Len(rs) : rs[i].id = IssueId
        THEN rs[CHOOSE i \in 1..Len(rs) : rs[i].id = IssueId].status
        ELSE "none"

NoResults == [w \in Workers |-> FALSE]
AllTrue == [w \in Workers |-> TRUE]
NoPres == [ph \in Phases |-> "none"]
\* The phases the checkpoint records as completed, and the phases whose
\* output files exist (what can_skip_phase looks at).
get_completed_phases == {ph \in Phases : is_phase_completed(ph)}
OutputExists ==
    {ph \in Phases : \/ ph = "research" /\ \E a \in ResearchFiles : art[a]
                     \/ ph = "debate" /\ art["debate"]}
\* The running operation: its name, run_full_pipeline's arguments and start
\* phase, and the completed phases and the outputs as the call found them.
NoOp == [op |-> "none", force |-> FALSE, from |-> "none", start |-> "none",
         done0 |-> {}, files0 |-> {}]

\* ------------------------------------------------ run_full_pipeline: start
\* Determine the start phase: force clears the checkpoint, from_phase clears
\* from that phase on, otherwise the checkpoint's resume phase (or research).
RunFullStart(from, force) ==
    /\ ppc = "idle"
    /\ cp' = IF force THEN clear_checkpoint(cp, "none")
             ELSE IF from # "none" THEN clear_checkpoint(cp, from)
             ELSE cp
    /\ rf' = [op |-> "run_full", force |-> force, from |-> from,
              start |-> IF force THEN "research"
                        ELSE IF from # "none" THEN from
                        ELSE IF get_resume_phase = "none" THEN "research"
                        ELSE get_resume_phase,
              done0 |-> get_completed_phases, files0 |-> OutputExists]
    /\ pres' = NoPres
    /\ ppc' = "rf_research"
    /\ UNCHANGED <<file, art, results, running, rv>>
    /\ UNCHANGED storeRest
    /\ UNCHANGED auxVars

\* from_phase names no phase: log the error and return the empty results.
RunFullInvalidPhase ==
    /\ ppc = "idle"
    /\ rf' = [op |-> "run_full", force |-> FALSE, from |-> "invalid",
              start |-> "none", done0 |-> {}, files0 |-> {}]
    /\ pres' = NoPres
    /\ UNCHANGED <<file, cp, art, ppc, results, running, rv>>
    /\ UNCHANGED storeRest
    /\ UNCHANGED auxVars

\* phase_idx <= 0: call research_single_issue(issue_id, force=force).
RunFullResearchCall ==
    /\ ppc = "rf_research"
    /\ PhaseIndex(rf.start) <= 1
    /\ ppc' = "rs_check"
    /\ UNCHANGED <<file, cp, art, rf, pres, results, running, rv>>
    /\ UNCHANGED storeRest
    /\ UNCHANGED auxVars

\* phase_idx > 0: "Skipping research (checkpoint completed)".
RunFullResearchSkip ==
    /\ ppc = "rf_research"
    /\ PhaseIndex(rf.start) > 1
    /\ pres' = [pres EXCEPT !["research"] = "skipped"]
    /\ ppc' = "rf_debate"
    /\ UNCHANGED <<file, cp, art, rf, results, running, rv>>
    /\ UNCHANGED storeRest
    /\ UNCHANGED auxVars

\* ------------------------------------------------- research_single_issue
\* research_single_issue called on its own (the CLI, research_all_unresearched).
ResearchStart ==
    /\ ppc = "idle"
    /\ rf' = [op |-> "research", force |-> FALSE, from |-> "none",
              start |-> "none", done0 |-> {}, files0 |-> {}]
    /\ pres' = NoPres
    /\ ppc' = "rs_check"
    /\ UNCHANGED <<file, cp, art, results, running, rv>>
    /\ UNCHANGED storeRest
    /\ UNCHANGED auxVars

\* not force and can_skip_phase: return all-True without running a worker.
RsSkip ==
    /\ ppc = "rs_check"
    /\ ~rf.force /\ can_skip_phase("research")
    /\ results' = AllTrue
    /\ rv' = "cached"
    /\ ppc' = "rs_ret"
    /\ UNCHANGED <<file, cp, art, rf, pres, running>>
    /\ UNCHANGED storeRest
    /\ UNCHANGED auxVars

\* save_checkpoint(in_progress), status researching, submit the two workers.
RsBegin ==
    /\ ppc = "rs_check"
    /\ ~(~rf.force /\ can_skip_phase("research"))
    /\ cp' = [cp EXCEPT !["research"] = "in_progress"]
    /\ file' = SetStatus("researching")
    /\ results' = NoResults
    /\ running' = {"researcher", "solution_finder"}
    /\ rv' = "ran"
    /\ ppc' = "rs_workers"
    /\ UNCHANGED <<art, rf, pres>>
    /\ UNCHANGED storeRest
    /\ UNCHANGED auxVars

\* A pooled worker finishes: on success its markdown file is written; a
\* failure or an exception counts as False.
WorkerDone(w, ok) ==
    /\ ppc = "rs_workers"
    /\ w \in running
    /\ running' = running \ {w}
    /\ results' = [results EXCEPT ![w] = ok]
    /\ art' = IF ok THEN [art EXCEPT ![OutputOf(w)] = TRUE] ELSE art
    /\ UNCHANGED <<file, cp, ppc, rf, pres, rv>>
    /\ UNCHANGED storeRest
    /\ UNCHANGED auxVars

\* Both pooled workers are done: assess_impact runs.
ImpactDone(ok) ==
    /\ ppc = "rs_workers"
    /\ running = {}
    /\ results' = [results EXCEPT !["impact_assessor"] = ok]
    /\ art' = IF ok THEN [art EXCEPT !["impact"] = TRUE] ELSE art
    /\ ppc' = "rs_end"
    /\ UNCHANGED <<file, cp, rf, pres, running, rv>>
    /\ UNCHANGED storeRest
    /\ UNCHANGED auxVars

\* A pipeline that asks every sub-worker to succeed (the mutant of AnySuccess).
EveryWorkerSucceeded(res) == \A w \in Workers : res[w]

\* any(results.values())
AnySuccess(res) == \E w \in Workers : res[w]

\* Status researched if any worker succeeded, else back to captured; the
\* checkpoint records completed or failed.
RsEnd ==
    /\ ppc = "rs_end"
    /\ file' = SetStatus(IF AnySuccess(results) THEN "researched" ELSE "captured")
    /\ cp' = [cp EXCEPT !["research"] = PhaseStatus(AnySuccess(results))]
    /\ ppc' = "rs_ret"
    /\ UNCHANGED <<art, rf, pres, results, running, rv>>
    /\ UNCHANGED storeRest
    /\ UNCHANGED auxVars

\* research_single_issue returns to its own caller.
ResearchReturn ==
    /\ ppc = "rs_ret"
    /\ rf.op = "research"
    /\ ppc' = "idle"
    /\ UNCHANGED <<file, cp, art, rf, pres, results, running, rv>>
    /\ UNCHANGED storeRest
    /\ UNCHANGED auxVars

\* Back in run_full_pipeline: without any success "Research failed --
\* stopping pipeline" and return; otherwise on to the debate.
RunFullAfterResearch ==
    /\ ppc = "rs_ret"
    /\ rf.op = "run_full"
    /\ pres' = [pres EXCEPT !["research"] =
                   IF ~AnySuccess(results) THEN "failed"
                   ELSE IF rv = "cached" THEN "cached" ELSE "ok"]
    /\ ppc' = IF AnySuccess(results) THEN "rf_debate" ELSE "idle"
    /\ UNCHANGED <<file, cp, art, rf, results, running, rv>>
    /\ UNCHANGED storeRest
    /\ UNCHANGED auxVars


\* ---------------------------------------------- run_full_pipeline: debate
\* phase_idx <= 1, not force and can_skip_phase("debate"): "debate already
\* completed, skipping".
RunFullDebateCached ==
    /\ ppc = "rf_debate"
    /\ PhaseIndex(rf.start) <= 2
    /\ ~rf.force /\ can_skip_phase("debate")
    /\ pres' = [pres EXCEPT !["debate"] = "cached"]
    /\ ppc' = "rf_converge"
    /\ UNCHANGED <<file, cp, art, rf, results, running, rv>>
    /\ UNCHANGED storeRest
    /\ UNCHANGED auxVars

\* phase_idx > 1: "Skipping debate (checkpoint completed)".
RunFullDebateSkip ==
    /\ ppc = "rf_debate"
    /\ PhaseIndex(rf.start) > 2
    /\ pres' = [pres EXCEPT !["debate"] = "skipped"]
    /\ ppc' = "rf_converge"
    /\ UNCHANGED <<file, cp, art, rf, results, running, rv>>
    /\ UNCHANGED storeRest
    /\ UNCHANGED auxVars

\* Otherwise save_checkpoint(debate, in_progress) and call debate_issue.
RunFullDebateCall ==
    /\ ppc = "rf_debate"
    /\ PhaseIndex(rf.start) <= 2
    /\ ~(~rf.force /\ can_skip_phase("debate"))
    /\ cp' = [cp EXCEPT !["debate"] = "in_progress"]
    /\ ppc' = "db_start"
    /\ UNCHANGED <<file, art, rf, pres, results, running, rv>>
    /\ UNCHANGED storeRest
    /\ UNCHANGED auxVars

\* ------------------------------------------------------------ debate_issue
\* debate_issue called on its own (python -m agents.debater <issue_id>).
DebateStart ==
    /\ ppc = "idle"
    /\ rf' = [op |-> "debate", force |-> FALSE, from |-> "none",
              start |-> "none", done0 |-> {}, files0 |-> {}]
    /\ pres' = NoPres
    /\ ppc' = "db_start"
    /\ UNCHANGED <<file, cp, art, results, running, rv>>
    /\ UNCHANGED storeRest
    /\ UNCHANGED auxVars

\* The issue is loaded; its status becomes debating.
DebateBegin ==
    /\ ppc = "db_start"
    /\ file' = SetStatus("debating")
    /\ ppc' = "db_round1"
    /\ UNCHANGED <<cp, art, rf, pres, results, running, rv>>
    /\ UNCHANGED storeRest
    /\ UNCHANGED auxVars

\* Round 1 fails (no research output to read, or the agent failed): the
\* status goes back to researched and debate_issue returns False.
DebateRound1Fail ==
    /\ ppc = "db_round1"
    /\ file' = SetStatus("researched")
    /\ rv' = "failed"
    /\ ppc' = "db_ret"
    /\ UNCHANGED <<cp, art, rf, pres, results, running>>
    /\ UNCHANGED storeRest
    /\ UNCHANGED auxVars

\* Round 1 succeeds (some research file has content and the agent answered);
\* debate.md is written by round 1, by round 2 or by round 2's fall-back copy;
\* the status becomes debated and debate_issue returns True.
DebateSucceed ==
    /\ ppc = "db_round1"
    /\ \E a \in ResearchFiles : art[a]
    /\ art' = [art EXCEPT !["debate"] = TRUE]
    /\ file' = SetStatus("debated")
    /\ rv' = "ok"
    /\ ppc' = "db_ret"
    /\ UNCHANGED <<cp, rf, pres, results, running>>
    /\ UNCHANGED storeRest
    /\ UNCHANGED auxVars

\* debate_issue returns to its own caller.
DebateReturn ==
    /\ ppc = "db_ret"
    /\ rf.op = "debate"
    /\ ppc' = "idle"
    /\ UNCHANGED <<file, cp, art, rf, pres, results, running, rv>>
    /\ UNCHANGED storeRest
    /\ UNCHANGED auxVars

\* Back in run_full_pipeline: the checkpoint records completed or failed;
\* a failed debate only warns, "continuing to convergence".
RunFullAfterDebate ==
    /\ ppc = "db_ret"
    /\ rf.op = "run_full"
    /\ cp' = [cp EXCEPT !["debate"] = PhaseStatus(rv = "ok")]
    /\ pres' = [pres EXCEPT !["debate"] = rv]
    /\ ppc' = "rf_converge"
    /\ UNCHANGED <<file, art, rf, results, running, rv>>
    /\ UNCHANGED storeRest
    /\ UNCHANGED auxVars

\* ----------------------------------------- run_full_pipeline: convergence
\* A run that leaves convergence out (the mutant of RunFullConvergeCall).
RunFullConvergeSkipped ==
    /\ ppc = "rf_converge"
    /\ pres' = [pres EXCEPT !["convergence"] = "cached"]
    /\ ppc' = "idle"
    /\ UNCHANGED <<file, cp, art, rf, results, running, rv>>
    /\ UNCHANGED storeRest
    /\ UNCHANGED auxVars

\* phase_idx <= 2 holds for every start phase: save_checkpoint(convergence,
\* in_progress) and call synthesize(issue_filter=issue_id).
RunFullConvergeCall ==
    /\ ppc = "rf_converge"
    /\ cp' = [cp EXCEPT !["convergence"] = "in_progress"]
    /\ ppc' = "sy_start"
    /\ UNCHANGED <<file, art, rf, pres, results, running, rv>>
    /\ UNCHANGED storeRest
    /\ UNCHANGED auxVars

\* -------------------------------------------------------------- synthesize
\* synthesize() called on its own (the session-end hook, the CLI).
SynthStart ==
    /\ ppc = "idle"
    /\ rf' = [op |-> "synth", force |-> FALSE, from |-> "none",
              start |-> "none", done0 |-> {}, files0 |-> {}]
    /\ pres' = NoPres
    /\ ppc' = "sy_start"
    /\ UNCHANGED <<file, cp, art, results, running, rv>>
    /\ UNCHANGED storeRest
    /\ UNCHANGED auxVars

\* The eligible issues: the one issue_filter names whatever its status; with
\* no filter the debated issues, or else the researched ones.
Eligible ==
    IF rf.op = "run_full" THEN Found(file, IssueId)
    ELSE StatusOf(file) \in {"debated", "researched"}

\* Fewer eligible issues than min_issues_for_convergence: return False.
SynthNotEligible ==
    /\ ppc = "sy_start"
    /\ ~Eligible
    /\ rv' = "failed"
    /\ ppc' = "sy_ret"
    /\ UNCHANGED <<file, cp, art, rf, pres, results, running>>
    /\ UNCHANGED storeRest
    /\ UNCHANGED auxVars

\* The arbiter agent fails, or a report file cannot be written: return False.
SynthFail ==
    /\ ppc = "sy_start"
    /\ Eligible
    /\ rv' = "failed"
    /\ ppc' = "sy_ret"
    /\ UNCHANGED <<file, cp, art, rf, pres, results, running>>
    /\ UNCHANGED storeRest
    /\ UNCHANGED auxVars

\* The report and the tasks are written; every eligible issue's status
\* becomes converged.
SynthSucceed ==
    /\ ppc = "sy_start"
    /\ Eligible
    /\ file' = SetStatus("converged")
    /\ rv' = "ok"
    /\ ppc' = "sy_ret"
    /\ UNCHANGED <<cp, art, rf, pres, results, running>>
    /\ UNCHANGED storeRest
    /\ UNCHANGED auxVars

\* synthesize returns to its own caller.
SynthReturn ==
    /\ ppc = "sy_ret"
    /\ rf.op = "synth"
    /\ ppc' = "idle"
    /\ UNCHANGED <<file, cp, art, rf, pres, results, running, rv>>
    /\ UNCHANGED storeRest
    /\ UNCHANGED auxVars

\* A run that returns without recording how convergence ended (the mutant of
\* RunFullAfterConverge).
RunFullAfterConvergeNoSave ==
    /\ ppc = "sy_ret"
    /\ rf.op = "run_full"
    /\ pres' = [pres EXCEPT !["convergence"] = rv]
    /\ ppc' = "idle"
    /\ UNCHANGED <<file, cp, art, rf, results, running, rv>>
    /\ UNCHANGED storeRest
    /\ UNCHANGED auxVars

\* Back in run_full_pipeline: the checkpoint records completed or failed and
\* the results are returned.
RunFullAfterConverge ==
    /\ ppc = "sy_ret"
    /\ rf.op = "run_full"
    /\ cp' = [cp EXCEPT !["convergence"] = PhaseStatus(rv = "ok")]
    /\ pres' = [pres EXCEPT !["convergence"] = rv]
    /\ ppc' = "idle"
    /\ UNCHANGED <<file, art, rf, results, running, rv>>
    /\ UNCHANGED storeRest
    /\ UNCHANGED auxVars

\* Someone deletes an artefact file of the issue between two operations.
DeleteArtefact(a) ==
    /\ ppc = "idle"
    /\ art[a]
    /\ art' = [art EXCEPT ![a] = FALSE]
    /\ UNCHANGED <<file, cp, ppc, rf, pres, results, running, rv>>
    /\ UNCHANGED storeRest
    /\ UNCHANGED auxVars

\* The process running run_full_pipeline is interrupted (killed, or the
\* session ends): the call never returns, the pool's workers die with it and
\* the files stay as they are.
RunKilled ==
    /\ rf.op = "run_full"
    /\ ppc \notin {"idle", "off"}
    /\ rf' = [rf EXCEPT !.op = "killed"]
    /\ running' = {}
    /\ ppc' = "idle"
    /\ UNCHANGED <<file, cp, art, pres, results, rv>>
    /\ UNCHANGED storeRest
    /\ UNCHANGED auxVars

\* ------------------------------------------- debate_issue, round by round
\* budget.debate_rounds: 1 or 2.
DebateRounds == {1, 2}
\* What an agent call leaves: the n-th debate's round-r markdown, and its
\* structured JSON when the output held one.
Absent == [run |-> 0, round |-> 0]
Output(n, r) == [run |-> n, round |-> r]
NoDebateFiles == [round1_md |-> Absent, round1_json |-> Absent,
                  debate_md |-> Absent, debate_json |-> Absent,
                  metrics |-> Absent]
NoDebate == [pc |-> "off", rounds |-> 0, runs |-> 0, structured |-> Absent,
             final |-> Absent, round2 |-> "none", ret |-> FALSE,
             metrics0 |-> Absent]

\* debate_issue(issue_id): read the record, read the configured rounds, set
\* the status debating.
DbStart(rounds) ==
    /\ debate.pc = "idle"
    /\ debate.runs < MaxDebates
    /\ Found(file, IssueId)
    /\ file' = SetStatus("debating")
    /\ debate' = [pc |-> "d_round1", rounds |-> rounds, runs |-> debate.runs + 1,
                  structured |-> Absent, final |-> Absent, round2 |-> "none",
                  ret |-> FALSE, metrics0 |-> dfiles.metrics]
    /\ UNCHANGED <<storeRest, pipeVars, ckVars, docVars, sweepVars, arbVars,
                   hookVars, dfiles, lateVars, arc>>

\* Round 1 finds no research output, or its agent fails: the status goes
\* back to researched and debate_issue returns False.
DbRound1Fail ==
    /\ debate.pc = "d_round1"
    /\ file' = SetStatus("researched")
    /\ debate' = [debate EXCEPT !.pc = "d_ret", !.ret = FALSE]
    /\ UNCHANGED <<storeRest, pipeVars, ckVars, docVars, sweepVars, arbVars,
                   hookVars, dfiles, lateVars, arc>>

\* Round 1 succeeds, with or without structured JSON in its output: with two
\* rounds its files are the round-1 intermediates, with one the final files.
DbRound1Ok(withJson) ==
    /\ debate.pc = "d_round1"
    /\ LET md == Output(debate.runs, 1)
           js == IF withJson THEN Output(debate.runs, 1) ELSE Absent
       IN  /\ dfiles' = IF debate.rounds >= 2
                        THEN [dfiles EXCEPT !.round1_md = md,
                                !.round1_json = IF withJson THEN js ELSE @]
                        ELSE [dfiles EXCEPT !.debate_md = md,
                                !.debate_json = IF withJson THEN js ELSE @]
           /\ debate' = [debate EXCEPT
                            !.pc = IF debate.rounds >= 2 THEN "d_round2" ELSE "d_metrics",
                            !.structured = js, !.final = js]
    /\ UNCHANGED <<file, storeRest, pipeVars, ckVars, docVars, sweepVars, arbVars,
                   hookVars, lateVars, arc>>

\* A round-2 failure that promotes nothing (the mutant of DbRound2Fail).
DbRound2FailNoCopy ==
    /\ debate.pc = "d_round2"
    /\ debate' = [debate EXCEPT !.pc = "d_metrics", !.round2 = "failed"]
    /\ UNCHANGED <<file, storeRest, pipeVars, ckVars, docVars, sweepVars, arbVars,
                   hookVars, dfiles, lateVars, arc>>

\* Round 2's agent fails: debate_round1.md and debate_round1.json, where they
\* exist, are copied to debate.md and debate.json; _run_round2 returns
\* (True, round1_json).
DbRound2Fail ==
    /\ debate.pc = "d_round2"
    /\ dfiles' = [dfiles EXCEPT
                     !.debate_md = IF dfiles.round1_md # Absent
                                   THEN dfiles.round1_md ELSE @,
                     !.debate_json = IF dfiles.round1_json # Absent
                                     THEN dfiles.round1_json ELSE @]
    /\ debate' = [debate EXCEPT !.pc = "d_metrics", !.round2 = "failed"]
    /\ UNCHANGED <<file, storeRest, pipeVars, ckVars, docVars, sweepVars, arbVars,
                   hookVars, lateVars, arc>>

\* Round 2 succeeds: its output is the final debate.md (and debate.json); its
\* structured output, when there is one, replaces round 1's.
DbRound2Ok(withJson) ==
    /\ debate.pc = "d_round2"
    /\ dfiles' = [dfiles EXCEPT
                     !.debate_md = Output(debate.runs, 2),
                     !.debate_json = IF withJson THEN Output(debate.runs, 2) ELSE @]
    /\ debate' = [debate EXCEPT
                     !.pc = "d_metrics", !.round2 = "ok",
                     !.final = IF withJson THEN Output(debate.runs, 2) ELSE @]
    /\ UNCHANGED <<file, storeRest, pipeVars, ckVars, docVars, sweepVars, arbVars,
                   hookVars, lateVars, arc>>

\* _write_metrics when there is structured output, else "skipping metrics";
\* the status becomes debated and debate_issue returns True.
DbMetrics ==
    /\ debate.pc = "d_metrics"
    /\ dfiles' = [dfiles EXCEPT !.metrics = IF debate.final # Absent
                                            THEN debate.final ELSE @]
    /\ file' = SetStatus("debated")
    /\ debate' = [debate EXCEPT !.pc = "d_ret", !.ret = TRUE]
    /\ UNCHANGED <<storeRest, pipeVars, ckVars, docVars, sweepVars, arbVars,
                   hookVars, lateVars, arc>>

\* debate_issue has returned to its caller.
DbReturn ==
    /\ debate.pc = "d_ret"
    /\ debate' = [debate EXCEPT !.pc = "idle"]
    /\ UNCHANGED <<file, storeRest, pipeVars, ckVars, docVars, sweepVars, arbVars,
                   hookVars, dfiles, lateVars, arc>>

\* ------------------------------------- checkpoint.json (checkpoint.py)
Runs == 1..NRuns
storeButClock == <<file, quarantine, lock, pc, issue, snap, before, target, tmp,
                   attempt, fallback, out>>
NoPhases == [ph \in Phases |-> "none"]
\* _empty_checkpoint: no phase recorded, empty trajectory.
EmptyCheckpoint == [phases |-> NoPhases, traj |-> <<>>]
\* A checkpoint file that is missing, empty or cut short: json.load fails.
Unreadable == [ok |-> FALSE, phases |-> NoPhases, traj |-> <<>>]
\* load_checkpoint: the file's phases and trajectory, the empty checkpoint
\* when the file is missing or cannot be parsed.
load_checkpoint(f) ==
    IF f.ok THEN [phases |-> f.phases, traj |-> f.traj] ELSE EmptyCheckpoint
get_trajectory(f) == load_checkpoint(f).traj
NoCkOp == [kind |-> "none", phase |-> "none", status |-> "none"]
SaveStatuses == {"in_progress", "completed", "failed"}

\* save_checkpoint(issue_id, phase, status), first half: read the clock, load
\* the checkpoint, set the phase record and append the trajectory entry.
CkSaveLoad(r, ph, st) ==
    /\ ckpc[r] = "idle" /\ ckleft[r] > 0
    /\ ckleft' = [ckleft EXCEPT ![r] = @ - 1]
    /\ ckop' = [ckop EXCEPT ![r] = [kind |-> "save", phase |-> ph, status |-> st]]
    /\ ckold' = [ckold EXCEPT ![r] = load_checkpoint(ckfile)]
    /\ ckmem' = [ckmem EXCEPT ![r] =
                   [phases |-> [load_checkpoint(ckfile).phases EXCEPT ![ph] = st],
                    traj |-> Append(load_checkpoint(ckfile).traj,
                                    [phase |-> ph, status |-> st, ts |-> clock])]]
    /\ clock' = clock + 1
    /\ ckpc' = [ckpc EXCEPT ![r] = "open"]
    /\ UNCHANGED <<ckfile, ckret, ckdone>>
    /\ UNCHANGED <<storeButClock, pipeVars, docVars, moreVars>>

\* save_checkpoint with a phase that is not in PIPELINE_PHASES: return False.
CkSaveInvalid(r) ==
    /\ ckpc[r] = "idle" /\ ckleft[r] > 0
    /\ ckleft' = [ckleft EXCEPT ![r] = @ - 1]
    /\ ckop' = [ckop EXCEPT ![r] =
                  [kind |-> "save_invalid", phase |-> "invalid", status |-> "none"]]
    /\ ckold' = [ckold EXCEPT ![r] = load_checkpoint(ckfile)]
    /\ ckret' = [ckret EXCEPT ![r] = FALSE]
    /\ ckpc' = [ckpc EXCEPT ![r] = "ret"]
    /\ UNCHANGED <<ckfile, ckmem, ckdone>>
    /\ UNCHANGED <<file, storeRest, pipeVars, docVars, moreVars>>

\* clear_checkpoint(issue_id, from_phase), first half: load the checkpoint,
\* delete the phases from from_phase on (all of them for None, "none") and
\* append the clearing event.
CkClearLoad(r, from) ==
    /\ ckpc[r] = "idle" /\ ckleft[r] > 0
    /\ ckleft' = [ckleft EXCEPT ![r] = @ - 1]
    /\ ckop' = [ckop EXCEPT ![r] = [kind |-> "clear", phase |-> from, status |-> "none"]]
    /\ ckold' = [ckold EXCEPT ![r] = load_checkpoint(ckfile)]
    /\ ckmem' = [ckmem EXCEPT ![r] =
                   [phases |-> clear_checkpoint(load_checkpoint(ckfile).phases, from),
                    traj |-> Append(load_checkpoint(ckfile).traj,
                                    IF from = "none"
                                    THEN [phase |-> "all", status |-> "cleared",
                                          ts |-> clock]
                                    ELSE [phase |-> from, status |-> "cleared_from",
                                          ts |-> clock])]]
    /\ clock' = clock + 1
    /\ ckpc' = [ckpc EXCEPT ![r] = "open"]
    /\ UNCHANGED <<ckfile, ckret, ckdone>>
    /\ UNCHANGED <<storeButClock, pipeVars, docVars, moreVars>>

\* clear_checkpoint with a from_phase that names no phase: return False.
CkClearInvalid(r) ==
    /\ ckpc[r] = "idle" /\ ckleft[r] > 0
    /\ ckleft' = [ckleft EXCEPT ![r] = @ - 1]
    /\ ckop' = [ckop EXCEPT ![r] =
                  [kind |-> "clear_invalid", phase |-> "invalid", status |-> "none"]]
    /\ ckold' = [ckold EXCEPT ![r] = load_checkpoint(ckfile)]
    /\ ckret' = [ckret EXCEPT ![r] = FALSE]
    /\ ckpc' = [ckpc EXCEPT ![r] = "ret"]
    /\ UNCHANGED <<ckfile, ckmem, ckdone>>
    /\ UNCHANGED <<file, storeRest, pipeVars, docVars, moreVars>>

\* open(path, "w"): the file is truncated before anything is written.
CkOpen(r) ==
    /\ ckpc[r] = "open"
    /\ ckfile' = Unreadable
    /\ ckpc' = [ckpc EXCEPT ![r] = "dump"]
    /\ UNCHANGED <<ckop, ckold, ckmem, ckret, ckleft, ckdone>>
    /\ UNCHANGED <<file, storeRest, pipeVars, docVars, moreVars>>

\* open() raises (say, the file is not writable): except Exception, return
\* False; the file is as it was.
CkOpenFail(r) ==
    /\ ckpc[r] = "open"
    /\ ckret' = [ckret EXCEPT ![r] = FALSE]
    /\ ckpc' = [ckpc EXCEPT ![r] = "ret"]
    /\ UNCHANGED <<ckfile, ckop, ckold, ckmem, ckleft, ckdone>>
    /\ UNCHANGED <<file, storeRest, pipeVars, docVars, moreVars>>

\* json.dump writes the whole checkpoint; the operation returns True.
CkDump(r) ==
    /\ ckpc[r] = "dump"
    /\ ckfile' = [ok |-> TRUE, phases |-> ckmem[r].phases, traj |-> ckmem[r].traj]
    /\ ckret' = [ckret EXCEPT ![r] = TRUE]
    /\ ckdone' = Append(ckdone, ckmem[r].traj[Len(ckmem[r].traj)])
    /\ ckpc' = [ckpc EXCEPT ![r] = "ret"]
    /\ UNCHANGED <<ckop, ckold, ckmem, ckleft>>
    /\ UNCHANGED <<file, storeRest, pipeVars, docVars, moreVars>>

\* json.dump raises part-way (a value in details that JSON cannot encode, a
\* full disk): except Exception, return False; the file holds what was
\* written so far.
CkDumpFail(r) ==
    /\ ckpc[r] = "dump"
    /\ ckfile' = Unreadable
    /\ ckret' = [ckret EXCEPT ![r] = FALSE]
    /\ ckpc' = [ckpc EXCEPT ![r] = "ret"]
    /\ UNCHANGED <<ckop, ckold, ckmem, ckleft, ckdone>>
    /\ UNCHANGED <<file, storeRest, pipeVars, docVars, moreVars>>

\* The operation has returned; the run goes on.
CkReturn(r) ==
    /\ ckpc[r] = "ret"
    /\ ckpc' = [ckpc EXCEPT ![r] = "idle"]
    /\ UNCHANGED <<ckfile, ckop, ckold, ckmem, ckret, ckleft, ckdone>>
    /\ UNCHANGED <<file, storeRest, pipeVars, docVars, moreVars>>

\* ------------------------- the knowledge document (claude_md_bridge.py)
\* CLAUDE.md as a sequence of tokens: the two markers, the newline and pieces
\* of text that hold neither a marker nor a newline.
START_MARKER == "S"
END_MARKER == "E"
NL == "n"
UserText == {"a", "b"}
Bodies == {"k1", "k2"}
DocTokens == UserText \cup {NL, START_MARKER, END_MARKER}

\* tok in content
Has(c, tok) == \E i \in 1..Len(c) : c[i] = tok
\* content.index(tok), counted from 1
IndexOf(c, tok) == CHOOSE i \in 1..Len(c) : c[i] = tok /\ \A j \in 1..(i - 1) : c[j] # tok
RECURSIVE rstrip(_)
rstrip(c) == IF c # <<>> /\ c[Len(c)] = NL THEN rstrip(SubSeq(c, 1, Len(c) - 1)) ELSE c
RECURSIVE lstrip(_)
lstrip(c) == IF c # <<>> /\ c[1] = NL THEN lstrip(Tail(c)) ELSE c
\* content[end_idx:], end_idx just after the end marker and after the newline
\* that follows it, if one does
AfterEndMarker(c) ==
    LET e == IndexOf(c, END_MARKER) + 1
        from == IF e <= Len(c) /\ c[e] = NL THEN e + 1 ELSE e
    IN  SubSeq(c, from, Len(c))
BeforeStartMarker(c) == SubSeq(c, 1, IndexOf(c, START_MARKER) - 1)

_strip_convergence_section(c) ==
    IF Has(c, START_MARKER) /\ Has(c, END_MARKER)
    THEN rstrip(BeforeStartMarker(c)) \o AfterEndMarker(c)
    ELSE IF Has(c, START_MARKER) THEN rstrip(BeforeStartMarker(c))
    ELSE IF Has(c, END_MARKER) THEN lstrip(AfterEndMarker(c))
    ELSE c

\* build_convergence_section: the start marker, the generated body, the end
\* marker, joined by newlines.
Section(body) == <<START_MARKER, NL, body, NL, END_MARKER>>

\* new_content.endswith("\n\n") and ("\n")
EndsWithNL(c) == c # <<>> /\ c[Len(c)] = NL
EndsWithTwoNL(c) == Len(c) >= 2 /\ c[Len(c)] = NL /\ c[Len(c) - 1] = NL
PadBeforeSection(c) ==
    IF c # <<>> /\ ~EndsWithTwoNL(c)
    THEN (IF EndsWithNL(c) THEN c ELSE c \o <<NL>>) \o <<NL>>
    ELSE c

\* The document write_to_claude_md writes for the existing one.
NewContent(existing, body) ==
    PadBeforeSection(_strip_convergence_section(existing)) \o Section(body) \o <<NL>>

\* write_to_claude_md under the lock: read, strip, append, replace.
BridgeWrite(body) ==
    /\ writes < MaxWrites
    /\ doc' = NewContent(doc, body)
    /\ writes' = writes + 1
    /\ UNCHANGED <<file, storeRest, pipeVars, ckVars, moreVars>>

\* The lock is not acquired within _LOCK_TIMEOUT: return False.
BridgeLockTimeout ==
    /\ writes < MaxWrites
    /\ UNCHANGED <<doc, writes>>
    /\ UNCHANGED <<file, storeRest, pipeVars, ckVars, moreVars>>

\* Writing the temporary file or os.replace raises: the temporary file is
\* removed, return False.
BridgeWriteFail ==
    /\ writes < MaxWrites
    /\ UNCHANGED <<doc, writes>>
    /\ UNCHANGED <<file, storeRest, pipeVars, ckVars, moreVars>>

\* ------------------------------ pre-tool matcher: fingerprint-matcher main()
\* The words an error pattern or a tool input is made of.  "failed" is one of
\* the common words _check_tool_input_matches leaves out of the comparison.
Words == {"timeout", "failed"}
CommonWords == {"tool", "failed", "error", "the", "with", "from", "that"}
MaxWarnings == 3    \* for match in matches[:3]

NoKb == [table |-> <<>>, issues |-> <<>>]
NoMatch == [pc |-> "off", input |-> {}, patterns |-> <<>>, matches |-> <<>>,
            warnings |-> 0, stdout |-> <<>>, exit |-> -1]

Min(a, b) == IF a < b THEN a ELSE b
Max(a, b) == IF a > b THEN a ELSE b

\* The converged records of the log, as patterns.
RECURSIVE ConvergedPatterns(_)
ConvergedPatterns(is) ==
    IF is = <<>> THEN <<>>
    ELSE (IF Head(is).status = "converged"
          THEN <<[source |-> "issues_jsonl", error |-> Head(is).error]>>
          ELSE <<>>) \o ConvergedPatterns(Tail(is))

\* _load_converged_patterns: the rows of the knowledge table and, only when
\* there is none, the converged records of the log.
_load_converged_patterns(k) ==
    IF k.table # <<>>
    THEN [i \in 1..Len(k.table) |-> [source |-> "claude_md", error |-> k.table[i]]]
    ELSE ConvergedPatterns(k.issues)

\* One pattern against the input text: the pattern's words that are not
\* common words, and how many of them the text holds.
PatternMatches(pattern, input) ==
    LET error_words == pattern.error \ CommonWords
        overlap == Cardinality(error_words \cap input)
    IN  /\ error_words # {}
        /\ overlap >= Max(1, Cardinality(error_words) \div 3)

RECURSIVE _check_tool_input_matches(_, _)
_check_tool_input_matches(input, patterns) ==
    IF patterns = <<>> THEN <<>>
    ELSE (IF PatternMatches(Head(patterns), input) THEN <<Head(patterns)>> ELSE <<>>)
         \o _check_tool_input_matches(input, Tail(patterns))

Allow == "allow"

\* The kill switch is off: allow and return.
MatchDisabled ==
    /\ match.pc = "idle"
    /\ match' = [match EXCEPT !.pc = "done", !.stdout = Append(@, Allow), !.exit = 0]
    /\ UNCHANGED <<file, storeRest, pipeVars, ckVars, docVars>>
    /\ UNCHANGED <<sweepVars, arbVars, hookVars, debVars, kb, textVars, pool, arc>>

\* Standard input is empty or not JSON: allow and return.
MatchMalformed ==
    /\ match.pc = "idle"
    /\ match' = [match EXCEPT !.pc = "done", !.stdout = Append(@, Allow), !.exit = 0]
    /\ UNCHANGED <<file, storeRest, pipeVars, ckVars, docVars>>
    /\ UNCHANGED <<sweepVars, arbVars, hookVars, debVars, kb, textVars, pool, arc>>

\* The envelope is valid JSON but no object: payload.get raises
\* AttributeError outside every try; the process ends with a traceback,
\* exit status 1 and nothing on stdout.
MatchNonObject ==
    /\ match.pc = "idle"
    /\ match' = [match EXCEPT !.pc = "crashed", !.exit = 1]
    /\ UNCHANGED <<file, storeRest, pipeVars, ckVars, docVars>>
    /\ UNCHANGED <<sweepVars, arbVars, hookVars, debVars, kb, textVars, pool, arc>>

\* The envelope is an object whose tool_input holds the words of input:
\* load the patterns.
MatchLoad(input) ==
    /\ match.pc = "idle"
    /\ match' = [match EXCEPT !.pc = "loaded", !.input = input,
                              !.patterns = _load_converged_patterns(kb)]
    /\ UNCHANGED <<file, storeRest, pipeVars, ckVars, docVars>>
    /\ UNCHANGED <<sweepVars, arbVars, hookVars, debVars, kb, textVars, pool, arc>>

\* No known pattern: allow and return.
MatchNoPatterns ==
    /\ match.pc = "loaded"
    /\ match.patterns = <<>>
    /\ match' = [match EXCEPT !.pc = "done", !.stdout = Append(@, Allow), !.exit = 0]
    /\ UNCHANGED <<file, storeRest, pipeVars, ckVars, docVars>>
    /\ UNCHANGED <<sweepVars, arbVars, hookVars, debVars, kb, textVars, pool, arc>>

\* Check the input against the patterns and write one warning to stderr for
\* each of the first three matches.
MatchWarn ==
    /\ match.pc = "loaded"
    /\ match.patterns # <<>>
    /\ LET matches == _check_tool_input_matches(match.input, match.patterns)
       IN  match' = [match EXCEPT !.pc = "warned", !.matches = matches,
                                  !.warnings = Min(Len(matches), MaxWarnings)]
    /\ UNCHANGED <<file, storeRest, pipeVars, ckVars, docVars>>
    /\ UNCHANGED <<sweepVars, arbVars, hookVars, debVars, kb, textVars, pool, arc>>

\* "Always allow -- we are an observer".
MatchAllow ==
    /\ match.pc = "warned"
    /\ match' = [match EXCEPT !.pc = "done", !.stdout = Append(@, Allow), !.exit = 0]
    /\ UNCHANGED <<file, storeRest, pipeVars, ckVars, docVars>>
    /\ UNCHANGED <<sweepVars, arbVars, hookVars, debVars, kb, textVars, pool, arc>>

\* --------------------------- texts: sanitizer.py and fingerprint.py on lexemes
\* A text is a sequence of lexemes separated by blanks.  A lexeme stands for
\* the string it is written as; Chars is that string's length.
InputLexemes == {"failure", "password:", "/tmp/ab", "/home/alice/proj/app.py",
                 "sk-abcdefghijklmnopqrstuvwx"}
TOKEN_REDACTED == "[TOKEN_REDACTED]"
Chars(x) ==
    CASE x = "failure" -> 7
      [] x = "password:" -> 9
      [] x = "/tmp/ab" -> 7
      [] x = "/home/alice/proj/app.py" -> 23
      [] x = "sk-abcdefghijklmnopqrstuvwx" -> 27
      [] x = "[TOKEN_REDACTED]" -> 16
      [] x = "[PATH_REDACTED]/ab" -> 18
      [] x = "[PATH_REDACTED]/app.py" -> 22
MinSecretChars == 8     \* [^\s'"]{8,} in the key=value pattern

\* _TOKEN_PATTERNS but the last: a lexeme that is a key of a known vendor.
StripVendorTokens(t) ==
    [i \in 1..Len(t) |-> IF t[i] = "sk-abcdefghijklmnopqrstuvwx"
                         THEN TOKEN_REDACTED ELSE t[i]]

\* The last of _TOKEN_PATTERNS: a secret's name, "=" or ":", blanks and a
\* value of eight or more characters are replaced together, left to right.
RECURSIVE StripKeyValue(_)
StripKeyValue(t) ==
    IF t = <<>> THEN <<>>
    ELSE IF Head(t) = "password:" /\ Len(t) >= 2 /\ Chars(t[2]) >= MinSecretChars
         THEN <<TOKEN_REDACTED>> \o StripKeyValue(Tail(Tail(t)))
         ELSE <<Head(t)>> \o StripKeyValue(Tail(t))

\* _PATH_PATTERNS with _path_replacer: the directory goes, the basename stays.
StripPaths(t) ==
    [i \in 1..Len(t) |->
        CASE t[i] = "/tmp/ab" -> "[PATH_REDACTED]/ab"
          [] t[i] = "/home/alice/proj/app.py" -> "[PATH_REDACTED]/app.py"
          [] OTHER -> t[i]]

\* sanitize_context: tokens first, then paths (no lexeme here holds the
\* user's name, so the username rule changes nothing).
sanitize_context(t) == StripPaths(StripKeyValue(StripVendorTokens(t)))

\* normalize_error_message: the file-path pattern turns "/..." up to the next
\* blank into <PATH>, then the text is lowercased.
normalize_error_message(t) ==
    [i \in 1..Len(t) |->
        CASE t[i] \in {"/tmp/ab", "/home/alice/proj/app.py"} -> "<path>"
          [] t[i] \in {"[PATH_REDACTED]/ab", "[PATH_REDACTED]/app.py"}
               -> "[path_redacted]<path>"
          [] t[i] = "[TOKEN_REDACTED]" -> "[token_redacted]"
          [] OTHER -> t[i]]

\* compute_fingerprint: the canonical data the digest is taken of (two
\* records have the same sha256 digest exactly when these data are equal).
compute_fingerprint(r) ==
    [type |-> r.type, tool_name |-> r.tool_name,
     error_normalized |-> normalize_error_message(r.raw_error),
     source_file |-> r.source_file, git_branch |-> r.git_branch]

NoFingerprint == [missing |-> TRUE]
\* The record main() builds for a failed Bash call with the error text e.
RawIssue(e) ==
    [type |-> "error", tool_name |-> "Bash", git_branch |-> "main",
     source_file |-> "", raw_error |-> e, fingerprint |-> NoFingerprint]

\* sanitize_record: every string of the record goes through sanitize_context;
\* of this record's strings only raw_error holds anything to strip.
sanitize_record(r) == [r EXCEPT !.raw_error = sanitize_context(@)]

\* migrate_issue: a record without fingerprint gets the one of its content.
migrate_issue(r) ==
    IF r.fingerprint = NoFingerprint
    THEN [r EXCEPT !.fingerprint = compute_fingerprint(r)] ELSE r

NoSan == [pc |-> "off", text |-> <<>>, once |-> <<>>, twice |-> <<>>]
NoCap == [pc |-> "off", raw |-> <<>>, issue |-> RawIssue(<<>>), stored |-> <<>>]

TextFrame ==
    /\ UNCHANGED <<file, storeRest, pipeVars, ckVars, docVars>>
    /\ UNCHANGED <<sweepVars, arbVars, hookVars, debVars, matchVars, pool, arc>>

SanitizeOnce ==
    /\ san.pc = "s_text"
    /\ san' = [san EXCEPT !.pc = "s_once", !.once = sanitize_context(san.text)]
    /\ UNCHANGED cap /\ TextFrame

SanitizeTwice ==
    /\ san.pc = "s_once"
    /\ san' = [san EXCEPT !.pc = "s_twice", !.twice = sanitize_context(san.once)]
    /\ UNCHANGED cap /\ TextFrame

\* main(): build the record and fingerprint it.
CapBuild ==
    /\ cap.pc = "c_idle"
    /\ cap' = [cap EXCEPT !.pc = "c_built",
                 !.issue = [RawIssue(cap.raw) EXCEPT
                               !.fingerprint = compute_fingerprint(RawIssue(cap.raw))]]
    /\ UNCHANGED san /\ TextFrame

\* main(): sanitized_issue = sanitize_record(issue).
CapSanitize ==
    /\ cap.pc = "c_built"
    /\ cap' = [cap EXCEPT !.pc = "c_sanitized", !.issue = sanitize_record(@)]
    /\ UNCHANGED san /\ TextFrame

\* main(): no duplicate in the log, the sanitised record is appended.
CapStore ==
    /\ cap.pc = "c_sanitized"
    /\ cap' = [cap EXCEPT !.pc = "c_stored", !.stored = Append(@, cap.issue)]
    /\ UNCHANGED san /\ TextFrame

\* migrate_issues_file: every record of the log goes through migrate_issue.
CapMigrate ==
    /\ cap.pc = "c_stored"
    /\ cap' = [cap EXCEPT !.pc = "c_migrated",
                 !.stored = [i \in 1..Len(@) |-> migrate_issue(@[i])]]
    /\ UNCHANGED san /\ TextFrame

\* ------------------------- research_single_issue: the pool, thread by thread
DefaultMaxParallel == 2     \* config.get("max_parallel_agents", 2)
PoolCap == 2                \* min(max_parallel, 2)
PooledWorkers == {"researcher", "solution_finder"}
Outcomes == {"ok", "failed", "raised"}
NoPool == [max |-> DefaultMaxParallel, active |-> {}, finished |-> {},
           impact |-> "none"]

MoreButPool == <<sweepVars, arbVars, hookVars, debVars, matchVars, textVars, arc>>

\* ThreadPoolExecutor(max_workers=min(max_parallel, 2)) with max_parallel
\* below 1 raises ValueError: research_single_issue ends with the exception,
\* no worker was started.
PoolInvalid ==
    /\ ppc = "rs_workers"
    /\ Min(pool.max, PoolCap) < 1
    /\ running' = {}
    /\ rf' = [rf EXCEPT !.op = "raised"]
    /\ ppc' = "idle"
    /\ UNCHANGED <<file, cp, art, pres, results, rv>>
    /\ UNCHANGED <<storeRest, ckVars, docVars, MoreButPool, pool>>

\* A pool that starts the impact assessor as soon as the two workers are
\* submitted (the mutant of ImpactStart).
ImpactStartEarly ==
    /\ ppc = "rs_workers"
    /\ pool.impact = "none"
    /\ pool' = [pool EXCEPT !.impact = "running"]
    /\ UNCHANGED <<file, pipeVars, storeRest, ckVars, docVars, MoreButPool>>

\* A free pool thread takes a submitted worker.
PoolStart(w) ==
    /\ ppc = "rs_workers"
    /\ w \in running \ pool.active
    /\ Cardinality(pool.active) < Min(pool.max, PoolCap)
    /\ pool' = [pool EXCEPT !.active = @ \cup {w}]
    /\ UNCHANGED <<file, pipeVars, storeRest, ckVars, docVars, MoreButPool>>

\* A started worker ends: it returned True (its file is written), returned
\* False, or raised (future.result() raises, the except stores False).
PoolDone(w, outcome) ==
    /\ ppc = "rs_workers"
    /\ w \in pool.active
    /\ pool' = [pool EXCEPT !.active = @ \ {w}, !.finished = @ \cup {w}]
    /\ running' = running \ {w}
    /\ results' = [results EXCEPT ![w] = (outcome = "ok")]
    /\ art' = IF outcome = "ok" THEN [art EXCEPT ![OutputOf(w)] = TRUE] ELSE art
    /\ UNCHANGED <<file, cp, ppc, rf, pres, rv>>
    /\ UNCHANGED <<storeRest, ckVars, docVars, MoreButPool>>

\* The with-block has ended (every future is done, the pool is shut down):
\* assess_impact is called.
ImpactStart ==
    /\ ppc = "rs_workers"
    /\ pool.impact = "none"
    /\ Min(pool.max, PoolCap) >= 1
    /\ running = {}
    /\ pool' = [pool EXCEPT !.impact = "running"]
    /\ UNCHANGED <<file, pipeVars, storeRest, ckVars, docVars, MoreButPool>>

\* assess_impact ends: True, False, or an exception the except turns into
\* False.
ImpactEnd(outcome) ==
    /\ ppc = "rs_workers"
    /\ pool.impact = "running"
    /\ running = {}
    /\ pool' = [pool EXCEPT !.impact = "none", !.finished = {}]
    /\ results' = [results EXCEPT !["impact_assessor"] = (outcome = "ok")]
    /\ art' = IF outcome = "ok" THEN [art EXCEPT !["impact"] = TRUE] ELSE art
    /\ ppc' = "rs_end"
    /\ UNCHANGED <<file, cp, rf, pres, running, rv>>
    /\ UNCHANGED <<storeRest, ckVars, docVars, MoreButPool>>

\* ------------------------------------------------------------ initial states
\* A record that was in the log before the run.
OldIssue(id) == MkIssue(id, id, 0)
\* A parseable line that fails validate_issue (say, an unknown status).
InvalidIssue(id) == [MkIssue(id, id, 0) EXCEPT !.valid = FALSE]

StoreAtRest ==
    /\ quarantine = <<>>
    /\ lock = 0
    /\ issue = [p \in Procs |-> IF p \in Appenders THEN MkIssue(p, p, 0) ELSE NoRec]
    /\ snap = [p \in Procs |-> <<>>]
    /\ before = [p \in Procs |-> <<>>]
    /\ tmp = [p \in Procs |-> <<>>]
    /\ attempt = [p \in Procs |-> 0]
    /\ fallback = [p \in Procs |-> FALSE]
    /\ out = [p \in Procs |-> 0]
    /\ clock = 1

PipeAtRest ==
    /\ cp = [ph \in Phases |-> "none"]
    /\ art = [a \in Artefacts |-> FALSE]
    /\ rf = NoOp
    /\ pres = NoPres
    /\ results = NoResults
    /\ running = {}
    /\ rv = "none"

CkAtRest ==
    /\ ckfile = Unreadable
    /\ ckpc = [r \in Runs |-> "off"]
    /\ ckop = [r \in Runs |-> NoCkOp]
    /\ ckold = [r \in Runs |-> EmptyCheckpoint]
    /\ ckmem = [r \in Runs |-> EmptyCheckpoint]
    /\ ckret = [r \in Runs |-> FALSE]
    /\ ckleft = [r \in Runs |-> 0]
    /\ ckdone = <<>>

DocAtRest ==
    /\ doc = <<>>
    /\ writes = 0

DebateAtRest ==
    /\ debate = NoDebate
    /\ dfiles = NoDebateFiles

HooksAtRest ==
    /\ duplicate = [p \in Procs |-> NoRec]
    /\ diag = [p \in Procs |-> 0]

MatchAtRest ==
    /\ kb = NoKb
    /\ match = NoMatch

TextAtRest ==
    /\ san = NoSan
    /\ cap = NoCap

LateAtRest ==
    /\ MatchAtRest
    /\ TextAtRest
    /\ pool = NoPool

MoreAtRest ==
    /\ orig = <<>>
    /\ sweeps = 0
    /\ syn = NoSyn
    /\ conv = NoConv
    /\ HooksAtRest
    /\ DebateAtRest
    /\ LateAtRest
    /\ arc = NoArc

\* Capture hooks on a log that does not exist yet, or that holds the record
\* an earlier capture of fingerprint 1 left (id 100, seen once).
Init ==
    /\ StoreAtRest /\ PipeAtRest /\ CkAtRest /\ DocAtRest /\ MoreAtRest
    /\ file \in {<<>>, <<Line(MkIssue(100, 1, 0), "full")>>}
    /\ pc = [p \in Procs |-> IF p \in Hooks THEN "idle" ELSE "off"]
    /\ target = [p \in Procs |-> NoTarget]
    /\ ppc = "off"

\* The status updates a pipeline worker makes, on a record of the log (101,
\* 102) or on an id the log does not hold (103).
StatusUpdates ==
    {[id |-> i, patch |-> [status |-> "researching"]] : i \in 101..103}

\* Appenders of distinct records and updaters on a log of two records.
InitStore ==
    /\ StoreAtRest /\ PipeAtRest /\ CkAtRest /\ DocAtRest /\ MoreAtRest
    /\ file = <<Line(OldIssue(101), "full"), Line(OldIssue(102), "full")>>
    /\ pc = [p \in Procs |-> IF p \in Appenders THEN "a_try"
                             ELSE IF p \in Updaters THEN "u_lock" ELSE "off"]
    /\ target \in [Procs -> StatusUpdates \cup {NoTarget}]
    /\ \A p \in Procs : target[p] = NoTarget <=> p \notin Updaters
    /\ ppc = "off"

\* A sweep, appenders and updaters on a log that holds one invalid record.
InitSweep ==
    /\ StoreAtRest /\ PipeAtRest /\ CkAtRest /\ DocAtRest /\ MoreAtRest
    /\ file = <<Line(OldIssue(101), "full"), Line(InvalidIssue(102), "full")>>
    /\ pc = [p \in Procs |-> IF p \in Appenders THEN "a_try"
                             ELSE IF p \in Updaters THEN "u_lock"
                             ELSE IF p \in Sweepers THEN "s_read" ELSE "off"]
    /\ target = [p \in Procs |-> IF p \in Updaters
                                 THEN [id |-> 101, patch |-> [status |-> "researching"]]
                                 ELSE NoTarget]
    /\ ppc = "off"

\* The orchestrator and one captured issue.
InitPipeline ==
    /\ StoreAtRest /\ PipeAtRest /\ CkAtRest /\ DocAtRest /\ MoreAtRest
    /\ file = <<Line(MkIssue(IssueId, 1, 0), "full")>>
    /\ pc = [p \in Procs |-> "off"]
    /\ target = [p \in Procs |-> NoTarget]
    /\ ppc = "idle"

\* ------------------------------------------------------- next-state relations
AppendStep(p) ==
    \/ AppAcquire(p) \/ AppBusy(p) \/ AppWriteHead(p) \/ AppWriteTail(p)
    \/ AppRelease(p)

UpdateStep(p) ==
    \/ UpdAcquire(p) \/ UpdRead(p) \/ UpdWriteTmp(p) \/ UpdReplace(p)
    \/ UpdRelease(p)

HookStep(p) ==
    \/ HookDisabled(p) \/ HookMalformed(p) \/ HookNonObject(p)
    \/ (\E f \in Fingerprints : HookBuild(p, f))
    \/ HookRead(p) \/ HookAllow(p)

\* Capture hooks running concurrently.
Next ==
    \E p \in Hooks :
        HookStep(p) \/ AppendStep(p) \/ UpdateStep(p)
        \/ HookFallback(p) \/ HookGiveUp(p)

Spec == Init /\ [][Next]_vars

\* Capture hooks running one after another: a hook takes a step only while
\* every other hook is before its start or after its end.  The lock is then
\* never found held.
InitSerial ==
    /\ StoreAtRest /\ PipeAtRest /\ CkAtRest /\ DocAtRest /\ MoreAtRest
    /\ file = <<>>
    /\ pc = [p \in Procs |-> IF p \in SerialHooks THEN "idle" ELSE "off"]
    /\ target = [p \in Procs |-> NoTarget]
    /\ ppc = "off"

Alone(p) == \A q \in SerialHooks \ {p} : pc[q] \in {"idle", "done", "h_crashed"}

NextSerial ==
    \E p \in SerialHooks :
        \/ Alone(p) /\ HookDisabled(p)
        \/ Alone(p) /\ HookMalformed(p)
        \/ Alone(p) /\ HookNonObject(p)
        \/ Alone(p) /\ (\E f \in Fingerprints : HookBuild(p, f))
        \/ Alone(p) /\ HookRead(p)
        \/ Alone(p) /\ HookAllow(p)
        \/ Alone(p) /\ AppAcquire(p)
        \/ Alone(p) /\ AppWriteHead(p)
        \/ Alone(p) /\ AppWriteTail(p)
        \/ Alone(p) /\ AppRelease(p)
        \/ Alone(p) /\ UpdAcquire(p)
        \/ Alone(p) /\ UpdRead(p)
        \/ Alone(p) /\ UpdWriteTmp(p)
        \/ Alone(p) /\ UpdReplace(p)
        \/ Alone(p) /\ UpdRelease(p)

SpecSerial == InitSerial /\ [][NextSerial]_vars

\* Capture hooks one after another on a log that holds a converged record
\* of fingerprint 1, seen once or twice.
InitKnown ==
    /\ StoreAtRest /\ PipeAtRest /\ CkAtRest /\ DocAtRest /\ MoreAtRest
    /\ \E c \in 1..2 :
          file = <<Line([MkIssue(100, 1, 0) EXCEPT !.status = "converged",
                                                  !.count = c], "full")>>
    /\ pc = [p \in Procs |-> IF p \in SerialHooks THEN "idle" ELSE "off"]
    /\ target = [p \in Procs |-> NoTarget]
    /\ ppc = "off"

SpecKnown == InitKnown /\ [][NextSerial]_vars

\* Appenders and updaters; an updater may fail or be killed at any step.
NextStore ==
    \/ \E p \in Appenders : AppendStep(p)
    \/ \E p \in Updaters : UpdateStep(p) \/ UpdFail(p) \/ UpdCrash(p)

SpecStore == InitStore /\ [][NextStore]_vars

\* The quarantine sweep beside appenders and updaters.
NextSweep ==
    \/ \E p \in Sweepers : SweepRead(p) \/ SweepQuarantine(p) \/ SweepReplace(p)
    \/ \E p \in Appenders : AppendStep(p)
    \/ \E p \in Updaters : UpdateStep(p)

SpecSweep == InitSweep /\ [][NextSweep]_vars

\* The orchestrator's operations on one issue, one after another.
NextPipeline ==
    \/ \E from \in {"none"} \cup Phases, force \in BOOLEAN : RunFullStart(from, force)
    \/ RunFullInvalidPhase
    \/ RunFullResearchCall \/ RunFullResearchSkip
    \/ ResearchStart \/ RsSkip \/ RsBegin
    \/ \E w \in Workers, ok \in BOOLEAN : WorkerDone(w, ok)
    \/ \E ok \in BOOLEAN : ImpactDone(ok)
    \/ RsEnd \/ ResearchReturn \/ RunFullAfterResearch
    \/ RunFullDebateCached \/ RunFullDebateSkip \/ RunFullDebateCall
    \/ DebateStart \/ DebateBegin \/ DebateRound1Fail \/ DebateSucceed
    \/ DebateReturn \/ RunFullAfterDebate
    \/ RunFullConvergeCall
    \/ SynthStart \/ SynthNotEligible \/ SynthFail \/ SynthSucceed
    \/ SynthReturn \/ RunFullAfterConverge
    \/ \E a \in Artefacts : DeleteArtefact(a)

SpecPipeline == InitPipeline /\ [][NextPipeline]_vars


\* An issue without a checkpoint; each of the runs saves and clears.
InitCheckpoint ==
    /\ StoreAtRest /\ PipeAtRest /\ DocAtRest /\ MoreAtRest
    /\ file = <<>>
    /\ pc = [p \in Procs |-> "off"]
    /\ target = [p \in Procs |-> NoTarget]
    /\ ppc = "off"
    /\ ckfile = Unreadable
    /\ ckpc = [r \in Runs |-> "idle"]
    /\ ckop = [r \in Runs |-> NoCkOp]
    /\ ckold = [r \in Runs |-> EmptyCheckpoint]
    /\ ckmem = [r \in Runs |-> EmptyCheckpoint]
    /\ ckret = [r \in Runs |-> FALSE]
    /\ ckleft = [r \in Runs |-> MaxCkOps]
    /\ ckdone = <<>>

\* Concurrent runs whose writes all succeed.
NextCheckpoint ==
    \E r \in Runs :
        \/ \E ph \in Phases, st \in SaveStatuses : CkSaveLoad(r, ph, st)
        \/ \E from \in Phases \cup {"none"} : CkClearLoad(r, from)
        \/ CkOpen(r) \/ CkDump(r) \/ CkReturn(r)

SpecCheckpoint == InitCheckpoint /\ [][NextCheckpoint]_vars

\* One run alone on the issue's checkpoint.
InitCkSerial ==
    /\ StoreAtRest /\ PipeAtRest /\ DocAtRest /\ MoreAtRest
    /\ file = <<>>
    /\ pc = [p \in Procs |-> "off"]
    /\ target = [p \in Procs |-> NoTarget]
    /\ ppc = "off"
    /\ ckfile = Unreadable
    /\ ckpc = [r \in Runs |-> IF r = 1 THEN "idle" ELSE "off"]
    /\ ckop = [r \in Runs |-> NoCkOp]
    /\ ckold = [r \in Runs |-> EmptyCheckpoint]
    /\ ckmem = [r \in Runs |-> EmptyCheckpoint]
    /\ ckret = [r \in Runs |-> FALSE]
    /\ ckleft = [r \in Runs |-> IF r = 1 THEN MaxSerialCkOps ELSE 0]
    /\ ckdone = <<>>

NextCkSerial ==
    \E r \in Runs :
        \/ \E ph \in Phases, st \in SaveStatuses : CkSaveLoad(r, ph, st)
        \/ CkSaveInvalid(r)
        \/ \E from \in Phases \cup {"none"} : CkClearLoad(r, from)
        \/ CkClearInvalid(r)
        \/ CkOpen(r) \/ CkOpenFail(r) \/ CkDump(r) \/ CkDumpFail(r)
        \/ CkReturn(r)

SpecCkSerial == InitCkSerial /\ [][NextCkSerial]_vars

\* Any knowledge document the user may have left, then bridge writes.
InitBridge ==
    /\ StoreAtRest /\ PipeAtRest /\ CkAtRest /\ MoreAtRest
    /\ file = <<>>
    /\ pc = [p \in Procs |-> "off"]
    /\ target = [p \in Procs |-> NoTarget]
    /\ ppc = "off"
    /\ doc \in UNION {[1..n -> DocTokens] : n \in 0..MaxDocLen}
    /\ writes = 0

NextBridge ==
    \/ \E body \in Bodies : BridgeWrite(body)
    \/ BridgeLockTimeout
    \/ BridgeWriteFail

SpecBridge == InitBridge /\ [][NextBridge]_vars

\* The lines a log may hold before a sweep: a valid record, a record that
\* fails validate_issue, and a line that is not JSON.
SweepLines ==
    {Line(OldIssue(101), "full"), Line(InvalidIssue(102), "full"),
     Line(OldIssue(103), "head")}

\* validate_all_issues alone, on any log of distinct lines, started again
\* after it returned or was interrupted.
InitResweep ==
    /\ StoreAtRest /\ PipeAtRest /\ CkAtRest /\ DocAtRest
    /\ file \in {f \in UNION {[1..n -> SweepLines] : n \in 0..Cardinality(SweepLines)} :
                     \A i, j \in 1..Len(f) : i # j => f[i] # f[j]}
    /\ orig = file
    /\ sweeps = 1
    /\ syn = NoSyn /\ conv = NoConv /\ HooksAtRest /\ DebateAtRest
    /\ LateAtRest /\ arc = NoArc
    /\ pc = [p \in Procs |-> IF p \in Sweepers THEN "s_read" ELSE "off"]
    /\ target = [p \in Procs |-> NoTarget]
    /\ ppc = "off"

NextResweep ==
    \E p \in Sweepers :
        \/ SweepRead(p) \/ SweepQuarantine(p) \/ SweepReplace(p)
        \/ SweepCrash(p) \/ SweepRerun(p)

SpecResweep == InitResweep /\ [][NextResweep]_vars

\* The statuses a record of the log may have when the arbiter runs.
ArbStatuses == {"captured", "researched", "debated", "converged"}

\* synthesize() calls, with and without a filter, on a log of records in any
\* of these statuses.
InitArbiter ==
    /\ StoreAtRest /\ PipeAtRest /\ CkAtRest /\ DocAtRest
    /\ orig = <<>> /\ sweeps = 0
    /\ HooksAtRest /\ DebateAtRest /\ LateAtRest /\ arc = NoArc
    /\ \E st \in [ArbIds -> ArbStatuses] :
          file = [i \in 1..NArbIssues |->
                     Line([OldIssue(100 + i) EXCEPT !.status = st[100 + i]], "full")]
    /\ syn = [NoSyn EXCEPT !.pc = "idle"]
    /\ conv = NoConv
    /\ pc = [p \in Procs |-> "off"]
    /\ target = [p \in Procs |-> NoTarget]
    /\ ppc = "off"

NextArbiter ==
    \/ \E filter \in {0, 101, 199}, min \in 1..MaxMinIssues : ArbStart(filter, min)
    \/ ArbBelowMin \/ ArbArchive
    \/ \E ok \in BOOLEAN : ArbAgent(ok) \/ ArbWriteReport(ok) \/ ArbWriteTasks(ok)
    \/ ArbUpdate \/ ArbReturn

SpecArbiter == InitArbiter /\ [][NextArbiter]_vars

\* synthesize() calls while the clock runs, on an output directory that is
\* empty or holds the report and the task list an earlier run wrote.
InitArchive ==
    /\ StoreAtRest /\ PipeAtRest /\ CkAtRest /\ DocAtRest
    /\ orig = <<>> /\ sweeps = 0
    /\ HooksAtRest /\ DebateAtRest /\ LateAtRest
    /\ file = [i \in 1..NArbIssues |->
                  Line([OldIssue(100 + i) EXCEPT !.status = "debated"], "full")]
    /\ syn = [NoSyn EXCEPT !.pc = "idle"]
    /\ \E earlier \in BOOLEAN :
          /\ conv = [NoConv EXCEPT !.report = earlier, !.tasks = earlier]
          /\ arc = IF earlier
                   THEN [NoArc EXCEPT !.report = 1, !.tasks = 2, !.last = 2,
                                      !.written = {<<"convergence", 1>>, <<"tasks", 2>>}]
                   ELSE NoArc
    /\ pc = [p \in Procs |-> "off"]
    /\ target = [p \in Procs |-> NoTarget]
    /\ ppc = "off"

NextArchive ==
    \/ NextArbiter
    \/ ArchiveClockTick

SpecArchive == InitArchive /\ [][NextArchive]_vars

\* debate_issue called on a researched issue, one or two rounds configured.
InitDebate ==
    /\ StoreAtRest /\ PipeAtRest /\ CkAtRest /\ DocAtRest
    /\ orig = <<>> /\ sweeps = 0
    /\ syn = NoSyn /\ conv = NoConv /\ HooksAtRest /\ LateAtRest /\ arc = NoArc
    /\ file = <<Line([MkIssue(IssueId, 1, 0) EXCEPT !.status = "researched"], "full")>>
    /\ debate = [NoDebate EXCEPT !.pc = "idle"]
    /\ dfiles = NoDebateFiles
    /\ pc = [p \in Procs |-> "off"]
    /\ target = [p \in Procs |-> NoTarget]
    /\ ppc = "off"

NextDebate ==
    \/ \E rounds \in DebateRounds : DbStart(rounds)
    \/ DbRound1Fail
    \/ \E withJson \in BOOLEAN : DbRound1Ok(withJson) \/ DbRound2Ok(withJson)
    \/ DbRound2Fail \/ DbMetrics \/ DbReturn

SpecDebate == InitDebate /\ [][NextDebate]_vars

\* One appender and the updater while another appender may hold the lock for
\* as long as it likes.
InitLock ==
    /\ StoreAtRest /\ PipeAtRest /\ CkAtRest /\ DocAtRest /\ MoreAtRest
    /\ file = <<Line(OldIssue(101), "full")>>
    /\ pc = [p \in Procs |-> IF p \in Appenders THEN "a_try"
                             ELSE IF p \in Updaters THEN "u_lock" ELSE "off"]
    /\ target = [p \in Procs |-> IF p \in Updaters
                                 THEN [id |-> 101, patch |-> [status |-> "researching"]]
                                 ELSE NoTarget]
    /\ ppc = "off"

NextLock ==
    \/ \E p \in Appenders : AppendStep(p)
    \/ \E p \in Updaters : UpdateStep(p) \/ UpdBlocked(p)

SpecLock == InitLock /\ [][NextLock]_vars

\* The lines a log may hold when update_jsonl_record is called: two records
\* with the id 101, a record with the id 102 and a line that is not JSON.
UpdateLines ==
    {Line(OldIssue(101), "full"), Line([OldIssue(101) EXCEPT !.fp = 2], "full"),
     Line(OldIssue(102), "full"), Line(OldIssue(103), "head")}

\* update_jsonl_record alone on any log of at most three of these lines.
InitUpdate ==
    /\ StoreAtRest /\ PipeAtRest /\ CkAtRest /\ DocAtRest /\ MoreAtRest
    /\ file \in UNION {[1..n -> UpdateLines] : n \in 0..3}
    /\ pc = [p \in Procs |-> IF p \in Updaters THEN "u_lock" ELSE "off"]
    /\ target \in [Procs -> StatusUpdates \cup {NoTarget}]
    /\ \A p \in Procs : target[p] = NoTarget <=> p \notin Updaters
    /\ ppc = "off"

NextUpdate == \E p \in Updaters : UpdateStep(p) \/ UpdFail(p)

SpecUpdate == InitUpdate /\ [][NextUpdate]_vars

\* Capture events of one fingerprint, running concurrently, on a log that
\* already holds the record of that fingerprint: every hook takes the update
\* branch.
InitRecur ==
    /\ StoreAtRest /\ PipeAtRest /\ CkAtRest /\ DocAtRest /\ MoreAtRest
    /\ file = <<Line(MkIssue(100, 1, 0), "full")>>
    /\ pc = [p \in Procs |-> IF p \in SerialHooks THEN "idle" ELSE "off"]
    /\ target = [p \in Procs |-> NoTarget]
    /\ ppc = "off"

NextRecur ==
    \E p \in SerialHooks :
        HookBuild(p, 1) \/ HookRead(p) \/ UpdateStep(p) \/ HookAllow(p)

SpecRecur == InitRecur /\ [][NextRecur]_vars

\* The statuses a pipeline worker sets while the issue goes through research
\* and debate.
WorkerStatuses == {"researching", "researched", "debating", "debated"}

\* One capture of fingerprint 1 beside a pipeline worker's status update, on
\* a log that holds the record an earlier capture of that fingerprint left:
\* the hook and the worker update the same record.
InitMixed ==
    /\ StoreAtRest /\ PipeAtRest /\ CkAtRest /\ DocAtRest /\ MoreAtRest
    /\ \E st \in {"captured", "researched"} :
          file = <<Line([MkIssue(100, 1, 0) EXCEPT !.status = st], "full")>>
    /\ pc = [p \in Procs |-> IF p = 1 THEN "idle"
                             ELSE IF p \in Updaters THEN "u_lock" ELSE "off"]
    /\ \E st \in WorkerStatuses :
          target = [p \in Procs |-> IF p \in Updaters
                                    THEN [id |-> 100, patch |-> [status |-> st]]
                                    ELSE NoTarget]
    /\ ppc = "off"

NextMixed ==
    \/ \E p \in Hooks : HookBuild(p, 1) \/ HookRead(p) \/ HookAllow(p)
    \/ \E p \in Hooks \cup Updaters : UpdateStep(p) \/ UpdBlocked(p)

SpecMixed == InitMixed /\ [][NextMixed]_vars

\* One run of the pre-tool matcher on a knowledge table of up to MaxPatterns
\* rows and a log of up to one record.
BSeq(S, n) == UNION {[1..k -> S] : k \in 0..n}
KbIssues == [status : {"captured", "converged"}, error : SUBSET Words]

InitMatch ==
    /\ StoreAtRest /\ PipeAtRest /\ CkAtRest /\ DocAtRest
    /\ orig = <<>> /\ sweeps = 0 /\ syn = NoSyn /\ conv = NoConv
    /\ HooksAtRest /\ DebateAtRest /\ TextAtRest /\ pool = NoPool /\ arc = NoArc
    /\ file = <<>>
    /\ pc = [p \in Procs |-> "off"]
    /\ target = [p \in Procs |-> NoTarget]
    /\ ppc = "off"
    /\ kb \in [table : BSeq(SUBSET Words, MaxPatterns), issues : BSeq(KbIssues, 1)]
    /\ match = [NoMatch EXCEPT !.pc = "idle"]

NextMatch ==
    \/ MatchDisabled \/ MatchMalformed \/ MatchNonObject
    \/ (\E input \in SUBSET Words : MatchLoad(input))
    \/ MatchNoPatterns \/ MatchWarn \/ MatchAllow

SpecMatch == InitMatch /\ [][NextMatch]_vars

\* sanitize_context applied to a text and then to its own output.
InitSanitize ==
    /\ StoreAtRest /\ PipeAtRest /\ CkAtRest /\ DocAtRest
    /\ orig = <<>> /\ sweeps = 0 /\ syn = NoSyn /\ conv = NoConv
    /\ HooksAtRest /\ DebateAtRest /\ MatchAtRest /\ pool = NoPool /\ arc = NoArc
    /\ file = <<>>
    /\ pc = [p \in Procs |-> "off"]
    /\ target = [p \in Procs |-> NoTarget]
    /\ ppc = "off"
    /\ cap = NoCap
    /\ san \in [pc : {"s_text"}, text : BSeq(InputLexemes, MaxTextLen),
                once : {<<>>}, twice : {<<>>}]

NextSanitize == SanitizeOnce \/ SanitizeTwice

SpecSanitize == InitSanitize /\ [][NextSanitize]_vars

\* A capture of a failed call with some error text, into a log that is empty
\* or holds one legacy record (stored sanitised, without fingerprint).
LegacyRecords == {sanitize_record(RawIssue(e)) : e \in BSeq(InputLexemes, 1)}

InitCapture ==
    /\ StoreAtRest /\ PipeAtRest /\ CkAtRest /\ DocAtRest
    /\ orig = <<>> /\ sweeps = 0 /\ syn = NoSyn /\ conv = NoConv
    /\ HooksAtRest /\ DebateAtRest /\ MatchAtRest /\ pool = NoPool /\ arc = NoArc
    /\ file = <<>>
    /\ pc = [p \in Procs |-> "off"]
    /\ target = [p \in Procs |-> NoTarget]
    /\ ppc = "off"
    /\ san = NoSan
    /\ cap \in [pc : {"c_idle"}, raw : BSeq(InputLexemes, MaxTextLen),
                issue : {RawIssue(<<>>)}, stored : BSeq(LegacyRecords, 1)]

NextCapture == CapBuild \/ CapSanitize \/ CapStore \/ CapMigrate

SpecCapture == InitCapture /\ [][NextCapture]_vars

\* run_full_pipeline calls on one issue, one after another, some of them
\* interrupted.
NextResume ==
    \/ \E from \in {"none"} \cup Phases, force \in BOOLEAN : RunFullStart(from, force)
    \/ RunFullInvalidPhase
    \/ RunFullResearchCall \/ RunFullResearchSkip
    \/ RsSkip \/ RsBegin
    \/ \E w \in Workers, ok \in BOOLEAN : WorkerDone(w, ok)
    \/ \E ok \in BOOLEAN : ImpactDone(ok)
    \/ RsEnd \/ RunFullAfterResearch
    \/ RunFullDebateCached \/ RunFullDebateSkip \/ RunFullDebateCall
    \/ DebateBegin \/ DebateRound1Fail \/ DebateSucceed \/ RunFullAfterDebate
    \/ RunFullConvergeCall
    \/ SynthFail \/ SynthSucceed \/ RunFullAfterConverge
    \/ RunKilled

SpecResume == InitPipeline /\ [][NextResume]_vars

\* Appends and an update on one log, each of which may fail.
NextFail ==
    \/ \E p \in Appenders : AppendStep(p) \/ AppNotSerialisable(p) \/ AppFail(p)
    \/ \E p \in Updaters : UpdateStep(p) \/ UpdFail(p)

SpecFail == InitLock /\ [][NextFail]_vars

\* research_single_issue calls on one issue, for every configured
\* max_parallel_agents from 0 on.
InitResearch ==
    /\ StoreAtRest /\ PipeAtRest /\ CkAtRest /\ DocAtRest
    /\ orig = <<>> /\ sweeps = 0 /\ syn = NoSyn /\ conv = NoConv
    /\ HooksAtRest /\ DebateAtRest /\ MatchAtRest /\ TextAtRest /\ arc = NoArc
    /\ file = <<Line(MkIssue(IssueId, 1, 0), "full")>>
    /\ pc = [p \in Procs |-> "off"]
    /\ target = [p \in Procs |-> NoTarget]
    /\ ppc = "idle"
    /\ pool \in [max : 0..MaxParallelAgents, active : {{}}, finished : {{}},
                 impact : {"none"}]

NextResearch ==
    \/ ResearchStart \/ RsSkip \/ RsBegin
    \/ PoolInvalid
    \/ \E w \in PooledWorkers : PoolStart(w)
    \/ \E w \in PooledWorkers, o \in Outcomes : PoolDone(w, o)
    \/ ImpactStart
    \/ \E o \in Outcomes : ImpactEnd(o)
    \/ RsEnd \/ ResearchReturn
    \/ \E a \in Artefacts : DeleteArtefact(a)

SpecResearch == InitResearch /\ [][NextResearch]_vars

\* ===================================================================== claims
FullLines(f) == {i \in 1..Len(f) : f[i].part = "full"}
LinesOfFp(f, fp) == {i \in FullLines(f) : f[i].rec.fp = fp}
LinesOfId(f, id) == {i \in FullLines(f) : f[i].rec.id = id}
TornLines(f) == {i \in 1..Len(f) : f[i].part # "full"}

\* The hooks that built a record of fingerprint fp (a capture event of fp).
Events(S, fp) == {p \in S : issue[p].fp = fp}
\* How often fp had been seen before the run (the record with id 100).
SeenBefore(fp) == IF LinesOfId(file, 100) # {} /\ fp = 1 THEN 1 ELSE 0
HooksFinished == \A p \in Hooks : pc[p] \in {"done", "h_crashed"}

\* C1: once all concurrent capture hooks have finished, for every fingerprint
\* captured there is a record whose occurrence_count is the number of capture
\* events of that fingerprint (added to the count the log started with): no
\* increment is lost.
C1_NoIncrementLost ==
    HooksFinished =>
        \A fp \in Fingerprints :
            Events(Hooks, fp) # {} =>
                \E i \in LinesOfFp(file, fp) :
                    file[i].rec.count = SeenBefore(fp) + Cardinality(Events(Hooks, fp))

\* C2: in every reachable state of the issues log, under any interleaving of
\* capture hooks, at most one record exists for a fingerprint.
C2_OneRecordPerFingerprint ==
    \A fp \in Fingerprints : Cardinality(LinesOfFp(file, fp)) <= 1

\* C3: after N capture events of one fingerprint, run one after another from a
\* log without that fingerprint, the log holds exactly one record of it, with
\* occurrence_count = N and last_seen = the timestamp of the latest event.
SerialQuiet == \A p \in SerialHooks : pc[p] \in {"idle", "done", "h_crashed"}
C3_SerialDedup ==
    SerialQuiet =>
        \A fp \in Fingerprints :
            LET evs == Events(SerialHooks, fp)
            IN  evs # {} =>
                  /\ Cardinality(LinesOfFp(file, fp)) = 1
                  /\ \A i \in LinesOfFp(file, fp) :
                        /\ file[i].rec.count = Cardinality(evs)
                        /\ \E p \in evs : file[i].rec.last = issue[p].last
                        /\ \A p \in evs : file[i].rec.last >= issue[p].last

\* C3 witness: every serial hook captured the same fingerprint and all are done.
C3_Witness ==
    /\ \A p \in SerialHooks : pc[p] = "done" /\ issue[p].fp = 1
    /\ \E i \in LinesOfFp(file, 1) : file[i].rec.count = NSerialHooks

AppendersFinished == \A p \in Appenders : pc[p] \in {"a_ret", "a_timeout"}

\* C4 as stated: once K concurrent appenders of distinct records have
\* finished, the log holds exactly one parseable line per appender and no torn
\* line.
C4_Original ==
    AppendersFinished =>
        /\ \A p \in Appenders : Cardinality(LinesOfId(file, p)) = 1
        /\ TornLines(file) = {}

\* C4 as amended: once the appenders have finished, the log holds exactly one
\* parseable line for every appender that returned, none for an appender that
\* gave up with the lock-timeout error, and no torn line.
C4_OneLinePerSuccessfulAppend ==
    AppendersFinished =>
        /\ \A p \in Appenders :
              Cardinality(LinesOfId(file, p)) = IF pc[p] = "a_ret" THEN 1 ELSE 0
        /\ TornLines(file) = {}

\* C4 witness: all appenders returned after at least one of them had found the
\* lock held.
C4_Witness ==
    /\ \A p \in Appenders : pc[p] = "a_ret"
    /\ \E p \in Appenders : attempt[p] > 0
    /\ \A p \in Appenders : Cardinality(LinesOfId(file, p)) = 1

\* C5: from the moment an update has read the log under the lock, whatever
\* step comes next (its own, another process's, an I/O failure, a kill), the
\* log afterwards is exactly the contents the update read or exactly the
\* contents it computed.
UpdHolding == {"u_tmp", "u_replace", "u_unlock"}
C5_UpdateAtomic ==
    [][\A p \in Updaters :
          pc[p] \in UpdHolding => file' \in {before'[p], snap'[p]}]_vars

\* C5 witness: an update was killed after it had written its temporary file,
\* and the log is what it had read.
C5_Witness ==
    \E p \in Updaters :
        /\ pc[p] = "crashed"
        /\ tmp[p] # <<>> /\ tmp[p] = snap[p]
        /\ file = before[p]
        /\ file # snap[p]

\* C6: a record appended, or a status update made, by another process while a
\* sweep is in progress is never lost from the issues log.
C6_SweepLosesNothing ==
    /\ \A p \in Appenders : pc[p] = "a_ret" => LinesOfId(file, p) # {}
    /\ \A p \in Updaters :
          pc[p] = "u_ret" =>
              \A i \in LinesOfId(file, target[p].id) :
                  file[i].rec.status = target[p].patch.status

\* C7: every capture hook that has ended wrote {"result": "allow"} to standard
\* output exactly once.
C7_AlwaysAllows ==
    \A p \in Hooks : pc[p] \in {"done", "h_crashed"} => out[p] = 1

\* C8: the issue's status only moves forward along the pipeline, or falls back
\* from researching to captured or from debating to researched, unless the
\* running operation was asked to clear the checkpoint (force or from_phase).
Rank(s) == CASE s = "captured" -> 0 [] s = "researching" -> 1
             [] s = "researched" -> 2 [] s = "debating" -> 3
             [] s = "debated" -> 4 [] s = "converging" -> 5
             [] s = "converged" -> 6 [] OTHER -> 0 - 1
PipelineDirection(s, t) ==
    \/ Rank(t) >= Rank(s)
    \/ s = "researching" /\ t = "captured"
    \/ s = "debating" /\ t = "researched"
ClearRequested == rf.op = "run_full" /\ (rf.force \/ rf.from \in Phases)
C8_StatusNeverRewound ==
    [][StatusOf(file') # StatusOf(file) =>
          PipelineDirection(StatusOf(file), StatusOf(file')) \/ ClearRequested]_vars

\* C9: run_full leaves a phase out only if the checkpoint records it as
\* completed and its output files exist.
C9_SkipNeedsArtefacts ==
    [][\A ph \in {"research", "debate"} :
          (pres[ph] = "none" /\ pres'[ph] \in {"skipped", "cached"})
              => can_skip_phase(ph)]_vars

RunFullReturned == ppc = "idle" /\ rf.op = "run_full" /\ rf.from # "invalid"
Executed(ph) == pres[ph] \in {"ok", "failed"}

Succeeded == {w \in Workers : results[w]}
ResearchRan == ppc = "rs_ret" /\ rv = "ran"
C11_ResearchOutcome ==
    ResearchRan =>
        IF Cardinality(Succeeded) >= 1
        THEN cp["research"] = "completed" /\ StatusOf(file) = "researched"
        ELSE cp["research"] = "failed" /\ StatusOf(file) = "captured"

\* C11 witness: research ended with exactly one sub-worker successful.
C11_Witness ==
    /\ ResearchRan
    /\ Cardinality(Succeeded) = 1
    /\ cp["research"] = "completed"

PlainRun == rf.op = "run_full" /\ ~rf.force /\ rf.from = "none"
ResearchSkippable0 == "research" \in rf.done0 /\ "research" \in rf.files0
NoResearchWorker ==
    /\ ppc \notin {"rs_workers", "rs_end"}
    /\ ppc = "idle" => pres["research"] \in {"skipped", "cached"}

Earlier(ph) == {q \in Phases : PhaseIndex(q) < PhaseIndex(ph)}
FirstIncomplete(ph) ==
    /\ cp[ph] # "completed"
    /\ \A q \in Earlier(ph) : cp[q] = "completed"
RunFullStarts == ppc = "idle" /\ ppc' = "rf_research" /\ rf'.from = "none" /\ ~rf'.force

C14_SkipIffCompletedAndOutput ==
    /\ can_skip_phase("research") <=>
          /\ cp["research"] = "completed"
          /\ art["root_cause"] \/ art["solutions"] \/ art["impact"]
    /\ can_skip_phase("debate") <=>
          cp["debate"] = "completed" /\ art["debate"]

\* C14 witness: debate is completed in the checkpoint, debate.md has been
\* deleted, and the phase cannot be skipped.
C14_Witness ==
    /\ cp["debate"] = "completed" /\ ~art["debate"]
    /\ cp["research"] = "completed" /\ \A a \in ResearchFiles : ~art[a]
    /\ ~can_skip_phase("debate") /\ ~can_skip_phase("research")

\* C15: convergence can never be skipped, and a run_full that reaches the
\* convergence phase marks it in_progress and calls the synthesiser.
C15_ConvergenceAlwaysRuns ==
    /\ [](~can_skip_phase("convergence"))
    /\ [][ppc = "rf_converge" =>
             ppc' = "sy_start" /\ cp'["convergence"] = "in_progress"]_vars

\* C15 witness: a run_full that found convergence completed is in the
\* synthesiser again.
C15_Witness ==
    /\ PlainRun /\ "convergence" \in rf.done0
    /\ ppc = "sy_start"


CkQuiet == \A r \in Runs : ckpc[r] \in {"idle", "off"}
InTrajectory(e) ==
    \E i \in 1..Len(get_trajectory(ckfile)) : get_trajectory(ckfile)[i] = e

\* C16: between the operations of a run that is alone, the trajectory is the
\* sequence of the entries of all saves and clears that returned True so far,
\* in their order: it only grows, by one entry per successful operation.
C16_TrajectoryOnlyGrows ==
    CkQuiet => get_trajectory(ckfile) = ckdone

\* C17: once concurrent runs have finished their saves and clears, the entry
\* of every operation that returned True is in the trajectory.
C17_NoEntryLost ==
    CkQuiet => \A i \in 1..Len(ckdone) : InTrajectory(ckdone[i])

\* C18: a clear that succeeded has removed the entries of from_phase and of
\* every later phase (of all phases when no phase is given), left the entries
\* of the earlier phases as they were loaded, and appended exactly one
\* clearing event to the trajectory; a clear with an invalid phase name has
\* returned False and the checkpoint is as it was loaded.
ClearReturned(r) == ckpc[r] = "ret" /\ ckop[r].kind = "clear"
ClearedPhases(from) ==
    IF from = "none" THEN Phases
    ELSE {ph \in Phases : PhaseIndex(ph) >= PhaseIndex(from)}
C18_ClearFromPhaseOn ==
    \A r \in Runs :
        /\ (ClearReturned(r) /\ ckret[r]) =>
              /\ ckfile.ok
              /\ \A ph \in ClearedPhases(ckop[r].phase) : ckfile.phases[ph] = "none"
              /\ \A ph \in Phases \ ClearedPhases(ckop[r].phase) :
                    ckfile.phases[ph] = ckold[r].phases[ph]
              /\ Len(ckfile.traj) = Len(ckold[r].traj) + 1
              /\ SubSeq(ckfile.traj, 1, Len(ckold[r].traj)) = ckold[r].traj
              /\ ckfile.traj[Len(ckfile.traj)].status \in {"cleared", "cleared_from"}
        /\ (ckpc[r] = "ret" /\ ckop[r].kind = "clear_invalid") =>
              ~ckret[r] /\ load_checkpoint(ckfile) = ckold[r]

\* C18 witness: a clear from debate succeeded on a checkpoint that recorded
\* research and debate; research is still recorded.
C18_Witness ==
    /\ ClearReturned(1) /\ ckret[1]
    /\ ckop[1].phase = "debate"
    /\ ckold[1].phases["research"] = "completed"
    /\ ckold[1].phases["debate"] = "completed"
    /\ ckfile.phases["research"] = "completed"


Count(c, tok) == Cardinality({i \in 1..Len(c) : c[i] = tok})
MatchedPair(c) ==
    /\ Count(c, START_MARKER) = 1 /\ Count(c, END_MARKER) = 1
    /\ IndexOf(c, START_MARKER) < IndexOf(c, END_MARKER)
TextBefore(c) == SubSeq(c, 1, IndexOf(c, START_MARKER) - 1)
TextAfter(c) == SubSeq(c, IndexOf(c, END_MARKER) + 1, Len(c))

\* C19: a bridge write on a document with one matched pair of markers leaves
\* the text before the start marker and the text after the end marker as they
\* were, where they were (the newlines next to the section apart).
Trim(c) == lstrip(rstrip(c))
C19_OutsideMarkersPreserved ==
    [][(writes' = writes + 1 /\ MatchedPair(doc)) =>
          /\ MatchedPair(doc')
          /\ Trim(TextBefore(doc')) = Trim(TextBefore(doc))
          /\ Trim(TextAfter(doc')) = Trim(TextAfter(doc))]_vars

\* C20: after a successful bridge write the document holds exactly one start
\* marker and exactly one end marker, the start before the end.
C20_OneMatchedPair ==
    writes > 0 => MatchedPair(doc)

\* --------------------------------------------------------------------- C21
Occurrences(q, l) == Cardinality({i \in 1..Len(q) : q[i] = l})
SweepReturned == \A p \in Sweepers : pc[p] = "s_ret"

\* C21: when a corpus-wide validation sweep has returned, also one started
\* again after an earlier sweep was interrupted, every line of the original
\* log that was invalid is in the quarantine log exactly once, the issues log
\* holds only valid records, and every originally valid record is still in
\* the issues log.
C21_QuarantinedExactlyOnce ==
    SweepReturned =>
        /\ \A i \in 1..Len(orig) :
              IsInvalidLine(orig[i]) => Occurrences(quarantine, orig[i]) = 1
        /\ \A i \in 1..Len(file) : IsValidLine(file[i])
        /\ \A i \in 1..Len(orig) :
              IsValidLine(orig[i]) => Occurrences(file, orig[i]) = 1

\* --------------------------------------------------------------------- C22
\* C22: a synthesiser run, also one that run_full restricts to one issue,
\* advances an issue to converged only from the status debated or researched.
C22_ConvergedOnlyFromEligible ==
    [][(ppc = "sy_start" /\ StatusOf(file') = "converged"
            /\ StatusOf(file) # "converged") =>
          StatusOf(file) \in {"debated", "researched"}]_vars

\* --------------------------------------------------------------------- C23
ArbReturned == syn.pc = "y_ret"

\* C23: a synthesiser run with fewer eligible issues than the configured
\* minimum returns False having archived nothing, invoked no agent, written
\* no report or task list and changed no issue status; with as many eligible
\* issues as the minimum (or more) it archives and invokes the agent.
C23_BelowMinimumNoOp ==
    ArbReturned =>
        IF Len(syn.eligible) < syn.min
        THEN ~syn.ret /\ file = syn.file0 /\ conv = syn.conv0
        ELSE /\ conv.agentCalls = syn.conv0.agentCalls + 1
             /\ conv.archived = syn.conv0.archived
                    + (IF syn.conv0.report THEN 1 ELSE 0)
                    + (IF syn.conv0.tasks THEN 1 ELSE 0)

\* A run below the minimum returns while an earlier run's report is there to
\* be archived and an issue is debated.
C23_Witness ==
    /\ ArbReturned
    /\ Len(syn.eligible) = 1 /\ syn.min = 2 /\ syn.filter = 0
    /\ conv.report /\ conv.tasks

\* --------------------------------------------------------------------- C24
\* C24: once a synthesiser run has succeeded and its caller has ended, a
\* knowledge-bridge write has been made and the knowledge document holds the
\* managed section.
C24_BridgeAfterSynthesis ==
    (syn.pc = "idle" /\ syn.ret) => (writes > 0 /\ MatchedPair(doc))

\* --------------------------------------------------------------------- C25
MatchedConverged(p) == duplicate[p].id # 0 /\ duplicate[p].status = "converged"

\* C25: when a capture event's fingerprint matches a record whose status is
\* converged, then once the hook's update has returned no record was added,
\* the matched record's occurrence_count is one more than it was, its
\* last_seen is the event's later timestamp and its status is still
\* converged; and once the hook has ended it has written one
\* "[convergence-engine]" line to stderr.
C25_KnownResolution ==
    \A p \in SerialHooks :
        MatchedConverged(p) =>
            /\ pc[p] = "u_ret" =>
                  /\ Len(file) = Len(before[p])
                  /\ LinesOfId(file, p) = {}
                  /\ Cardinality(LinesOfId(file, duplicate[p].id)) = 1
                  /\ \A i \in LinesOfId(file, duplicate[p].id) :
                        /\ file[i].rec.count = duplicate[p].count + 1
                        /\ file[i].rec.last = issue[p].last
                        /\ file[i].rec.last > duplicate[p].last
                        /\ file[i].rec.first = duplicate[p].first
                        /\ file[i].rec.status = "converged"
            /\ pc[p] = "done" => diag[p] = 1 /\ out[p] = 1

\* The converged record recurs for the second time in a row: the hook has
\* ended, the record's count went from 2 to 3.
C25_Witness ==
    \E p \in SerialHooks :
        /\ pc[p] = "done" /\ MatchedConverged(p) /\ duplicate[p].count = 2
        /\ diag[p] = 1
        /\ \E i \in LinesOfId(file, 100) : file[i].rec.count = 3

\* --------------------------------------------------------------------- C26
Round2Fallback ==
    debate.pc = "d_ret" /\ debate.rounds = 2 /\ debate.round2 = "failed"

C27_BoundedLockWait ==
    \A p \in Appenders \cup Updaters :
        /\ attempt[p] <= MaxRetries
        /\ attempt[p] = MaxRetries => pc[p] \in {"a_timeout", "u_timeout"}

\* --------------------------------------------------------------------- C28
Matches(f, id) == {i \in 1..Len(f) : f[i].part = "full" /\ f[i].rec.id = id}
FirstMatch(f, id) == CHOOSE i \in Matches(f, id) : \A j \in Matches(f, id) : i <= j

\* C28: when update(path, id, patch) has returned, the first record with the
\* id carries the patch, every other line of the log, parseable or not, is as
\* it was and where it was; without a match the log is unchanged.
C28_UpdateFrame ==
    \A p \in Updaters :
        pc[p] = "u_ret" =>
            IF Matches(before[p], target[p].id) = {}
            THEN file = before[p]
            ELSE /\ Len(file) = Len(before[p])
                 /\ \A i \in 1..Len(before[p]) :
                       file[i] = IF i = FirstMatch(before[p], target[p].id)
                                 THEN Line(ApplyPatch(before[p][i].rec, target[p].patch),
                                           "full")
                                 ELSE before[p][i]

\* --------------------------------------------------------------------- C29
\* C29: every record of the issues log has first_seen <= last_seen.
C29_FirstSeenBeforeLastSeen ==
    \A i \in FullLines(file) : file[i].rec.first <= file[i].rec.last

\* --------------------------------------------------------------------- C30
\* C30: no write to the issues log lowers the occurrence_count of a record
\* the log already holds.
C30_CountNeverLowered ==
    [][\A i \in FullLines(file) : \A j \in FullLines(file') :
          file'[j].rec.id = file[i].rec.id =>
              file'[j].rec.count >= file[i].rec.count]_vars

\* --------------------------------------------------------------------- C31
\* C31: a run of the pre-tool matcher that has ended wrote exactly one
\* "allow" to stdout and at most three warnings, and no warning when there
\* was no known pattern.
C31_MatcherAlwaysAllows ==
    match.pc \in {"done", "crashed"} =>
        /\ match.stdout = <<Allow>>
        /\ match.warnings <= MaxWarnings
        /\ (kb.table = <<>> /\ ConvergedPatterns(kb.issues) = <<>>) => match.warnings = 0

\* --------------------------------------------------------------------- C32
\* C32: every record of the log that carries a fingerprint carries the
\* fingerprint of its own stored content, after the capture and after the
\* migration.
C32_StoredFingerprintRecomputes ==
    cap.pc \in {"c_stored", "c_migrated"} =>
        \A i \in 1..Len(cap.stored) :
            cap.stored[i].fingerprint # NoFingerprint =>
                compute_fingerprint(cap.stored[i]) = cap.stored[i].fingerprint

\* --------------------------------------------------------------------- C33
\* C33: sanitising the sanitiser's output changes nothing.
C33_SanitiseIdempotent ==
    san.pc = "s_twice" => san.twice = san.once

\* --------------------------------------------------------------------- C34
InRunFull == rf.op = "run_full"
InResearchBody == ppc \in {"rs_workers", "rs_end"}
InDebateBody == ppc \in {"db_start", "db_round1", "db_ret"}
InConvergenceBody == ppc \in {"sy_start", "sy_ret"}

\* Within one call the phases run in the order research, debate, convergence,
\* one at a time, each with its checkpoint entry in_progress during its body
\* and completed or failed after it.
PhasesInOrderAndBracketed ==
    InRunFull =>
        /\ running # {} => ppc = "rs_workers"
        /\ InResearchBody =>
              cp["research"] = "in_progress" /\ pres = NoPres
        /\ InDebateBody =>
              /\ cp["debate"] = "in_progress"
              /\ pres["research"] # "none" /\ pres["debate"] = "none"
              /\ pres["convergence"] = "none"
        /\ InConvergenceBody =>
              /\ cp["convergence"] = "in_progress"
              /\ pres["research"] # "none" /\ pres["debate"] # "none"
              /\ pres["convergence"] = "none"
        /\ \A ph \in Phases : Executed(ph) => cp[ph] \in {"completed", "failed"}

InCritical(p) ==
    pc[p] \in {"a_head", "a_tail", "a_unlock", "u_read", "u_tmp", "u_replace",
               "u_unlock"}
Writers == Appenders \cup Updaters

\* C35: at most one appender or updater is between acquiring and releasing
\* the lock, it is the lock's holder, and every step that changes the log is
\* a write or a replace of the holder.
C35_SerialisedByLock ==
    /\ [](/\ Cardinality({p \in Writers : InCritical(p)}) <= 1
          /\ \A p \in Writers : InCritical(p) => lock = p)
    /\ [][file' # file =>
             \E p \in Writers :
                 /\ lock = p
                 /\ pc[p] \in {"a_head", "a_tail", "u_replace"}
                 /\ pc'[p] # pc[p]]_vars

\* The updater is about to replace the log under the lock, after an appender
\* wrote its line, while the other appender has found the lock held.
C35_Witness ==
    \E u \in Updaters, a \in Appenders, b \in Appenders :
        /\ a # b
        /\ lock = u /\ pc[u] = "u_replace"
        /\ pc[a] = "a_ret" /\ Len(file) = 2
        /\ pc[b] = "a_try" /\ attempt[b] >= 1

\* --------------------------------------------------------------------- C36
\* C36: an append or an update that has ended, in success or in failure, no
\* longer holds the lock and has left no temporary file; after a failed
\* append the log holds nothing of the record, after a failed update the log
\* is as the update read it or as a later writer changed it from there.
C36_FailureLeavesNoTrace ==
    /\ \A p \in Writers :
          pc[p] \in {"a_ret", "a_failed", "a_timeout", "u_ret", "u_failed"} =>
              lock # p /\ tmp[p] = <<>>
    /\ \A p \in Appenders :
          pc[p] = "a_failed" => \A i \in 1..Len(file) : file[i].rec # issue[p]
    /\ \A p \in Updaters :
          pc[p] = "u_failed" =>
              \A i \in 1..Len(before[p]) : file[i] = before[p][i]

\* --------------------------------------------------------------------- C37
\* C37: never more research workers run at once than max_parallel_agents
\* allows, and never more than two; while the impact assessor runs, the
\* root-cause worker and the solution finder have both ended and none runs.
C37_BoundedFanOut ==
    /\ Cardinality(pool.active) <= pool.max
    /\ Cardinality(pool.active) <= 2
    /\ pool.impact = "running" =>
          pool.finished = PooledWorkers /\ pool.active = {} /\ running = {}

\* The impact assessor runs after one pooled worker failed and the other
\* raised or failed too, with one pool thread.
C37_Witness ==
    /\ pool.impact = "running"
    /\ pool.max = 1
    /\ pool.finished = PooledWorkers
    /\ \A w \in PooledWorkers : ~results[w]


\* The version v of output k is still to be found: it is the current file or
\* a file of the archive.
VersionKept(k, v) ==
    \/ k = "convergence" /\ arc.report = v
    \/ k = "tasks" /\ arc.tasks = v
    \/ \E n \in ArchiveNames : n[1] = k /\ arc.dir[n] = v

AllRunsSucceeded == \A i \in 1..Len(arc.runs) : arc.runs[i].ret

\* C38: after any sequence of successful synthesize() runs every version of
\* the report and of the task list that was ever written is still there, as
\* the current file or in the archive: archiving overwrites no version.
C38_NoVersionOverwritten ==
    (syn.pc = "idle" /\ AllRunsSucceeded) =>
        \A w \in arc.written : VersionKept(w[1], w[2])

\* The synthesize() call is about to return after its run_agent call failed.
AgentFailedReturn ==
    /\ syn.pc = "y_ret"
    /\ conv.agentCalls = syn.conv0.agentCalls + 1
    /\ arc.agent = "failed"

NoCurrentOutputs ==
    /\ ~conv.report /\ ~conv.tasks
    /\ arc.report = 0 /\ arc.tasks = 0

\* The outputs the directory held when the call started are in the archive.
PreviousArchived ==
    /\ syn.conv0.report <=> arc.prev["convergence"] # 0
    /\ syn.conv0.tasks <=> arc.prev["tasks"] # 0
    /\ \A k \in OutputKinds :
          arc.prev[k] # 0 => \E n \in ArchiveNames : n[1] = k /\ arc.dir[n] = arc.prev[k]

AgentFailureOutcome ==
    AgentFailedReturn =>
        /\ ~syn.ret
        /\ file = syn.file0
        /\ PreviousArchived
        /\ NoCurrentOutputs

\* C40 as stated: a synthesize() call whose agent call fails returns False,
\* changes no status, has moved the previous outputs to the archive, and
\* from then on the directory holds no report and no task list as long as no
\* later call has returned True.
C40_Original ==
    /\ AgentFailureOutcome
    /\ syn.pc = "idle" =>
          \A f \in 1..Len(arc.runs) :
              (/\ arc.runs[f].agent = "failed"
               /\ \A i \in (f + 1)..Len(arc.runs) : ~arc.runs[i].ret)
              => NoCurrentOutputs

\* C40, amended: a synthesize() call whose agent call fails returns False,
\* changes no status, has moved the previous outputs to the archive, and
\* from then on the directory holds no report and no task list as long as no
\* later call's agent invocation has succeeded (that call writes the report
\* even when it then fails on the task list and returns False).
C40_AgentFailureAfterArchive ==
    /\ AgentFailureOutcome
    /\ syn.pc = "idle" =>
          \A f \in 1..Len(arc.runs) :
              (/\ arc.runs[f].agent = "failed"
               /\ \A i \in (f + 1)..Len(arc.runs) : arc.runs[i].agent # "ok")
              => NoCurrentOutputs

\* A call that found a report and a task list is about to return after its
\* agent call failed.
C40_Witness ==
    /\ AgentFailedReturn
    /\ syn.conv0.report /\ syn.conv0.tasks
    /\ syn.eligible # <<>>

\* The record of the log the hook and the worker both update.
SharedRecord(f) == CHOOSE r \in {read_jsonl(f)[i] : i \in 1..Len(read_jsonl(f))} : r.id = 100

\* The hook has found the record as a duplicate and has returned, and the
\* worker's update has returned.
BothUpdated(h, w) ==
    /\ pc[h] = "done" /\ duplicate[h].id = 100
    /\ pc[w] = "u_ret"

\* C39: a worker's status update and the hook's count/last_seen update of
\* the same record, in any interleaving, both take effect: when both have
\* returned the record has the worker's status, the count the hook computed
\* and the hook's last_seen; and no write of the one changes the fields of
\* the other (the worker's write leaves count and last_seen as they were in
\* the log, the hook's write leaves the status as it was).
C39_BothUpdatesTakeEffect ==
    /\ [](\A h \in Hooks, w \in Updaters :
            BothUpdated(h, w) =>
                /\ SharedRecord(file).status = target[w].patch.status
                /\ SharedRecord(file).count = duplicate[h].count + 1
                /\ SharedRecord(file).last = issue[h].last)
    /\ [][file' # file =>
            /\ (\E w \in Updaters : pc[w] = "u_replace" /\ pc'[w] # pc[w]) =>
                   /\ SharedRecord(file').count = SharedRecord(file).count
                   /\ SharedRecord(file').last = SharedRecord(file).last
            /\ (\E h \in Hooks : pc[h] = "u_replace" /\ pc'[h] # pc[h]) =>
                   SharedRecord(file').status = SharedRecord(file).status]_vars

\* Both have returned, and the hook read the log before the worker's write
\* and had to wait for the lock the worker held.
C39_Witness ==
    \E h \in Hooks, w \in Updaters :
        /\ BothUpdated(h, w)
        /\ attempt[h] > 0
        /\ duplicate[h].status # target[w].patch.status
        /\ SharedRecord(file).status = target[w].patch.status
        /\ SharedRecord(file).count = 2
====
